---- MODULE Spec2Model ----
(***************************************************************************)
(* ShelfScan AI: the state store (appReducer), the inventory simulator     *)
(* (mockData), the alert engine (alertUtils) and the update reconciler     *)
(* (useRealTimeUpdates), modelled from the TypeScript sources.             *)
(*                                                                         *)
(* Time is counted in whole minutes.  A Product is a record                *)
(* [product, count, threshold], a Shelf is [id, aisle, items, status,      *)
(* lastScanned], an Alert is [id, shelf, product, type, timestamp,         *)
(* acknowledged]; Math.random() is an existential choice over the draws.   *)
(***************************************************************************)
EXTENDS Integers, Sequences, FiniteSets, TLC

VARIABLES
    state,      \* AppState held by useReducer(appReducer): shelves, alerts, loading, error, selectedShelf, filterOptions
    now,        \* the reading of Date.now() (minutes)
    last,       \* the handler that ran last and its arguments (history, read by the properties only)
    mockData,   \* generateMockData(): the shelves and alerts it builds
    phase,      \* "ready" in the running application; else how far the function call under study has got
    pending,    \* the requestRescan calls awaiting their timeout, each with the shelf its closure finds
    timeouts,   \* startDemoSimulation: the scripted events whose timeout has not fired
    simulation, \* startDemoSimulation: the scenario it was given, the events onUpdate received, the cleanup calls (history)
    view,       \* the list a function call under study returned
    options,    \* the AlertFilterOptions the page passed to processAlerts
    stats,      \* the result of getAlertStats
    wsSimulationRef,    \* useRealTimeUpdates: the id of the push-simulation interval, 0 for null
    pollingTimerRef,    \* useRealTimeUpdates: the id of the polling interval, 0 for null
    intervals,  \* the intervals set and not cleared: their ids and the path they serve
    demo,       \* useDemoController: the useState values of the hook
    runs,       \* useDemoController: the continueScenario calls and the timeouts that are awaited
    audit,      \* the scenario run: its number, the steps it applied, the one that failed, its retries and its snapshot (history)
    boundary    \* ErrorBoundary: hasError and retryCount of this.state, resetTimeoutId, the timeouts set and not cleared;
                \* the clicks on Try Again so far, and those since the boundary was last reset by hand or by its keys (history)

vars == <<state, now, last, mockData, phase, pending, timeouts, simulation, view, options,
          stats, wsSimulationRef, pollingTimerRef, intervals, demo, runs, audit, boundary>>
\* the variables of the store, of generateMockData(), of the manual rescans, of
\* the scripted demo, of the pages, of the reconciler's timers, of the demo
\* controller and of the error boundary
storeVars == <<state, now, last>>
genVars == <<mockData, phase>>
rescanVars == <<pending>>
demoVars == <<timeouts, simulation>>
viewVars == <<view, options, stats>>
timerVars == <<wsSimulationRef, pollingTimerRef, intervals>>
ctrlVars == <<demo, runs, audit>>
boundaryVars == <<boundary>>

----------------------------------------------------------------------------
(* Bounds of the model *)

\* thresholds of the catalog (source: 5, 10, 15, 20 in PRODUCT_THRESHOLDS), scaled down
SmallThreshold == 2
\* largest count a product reaches in the store model
MaxCount == 3
\* largest value of Math.floor(Math.random() * n) that is drawn
MaxDraw == 1
\* longest alert list ADD_ALERT is allowed to build
MaxAlerts == 3
\* last clock reading at which a demo alert is triggered
MaxNow == 1
\* largest number of hours since a generated shelf was last scanned
MaxHoursAgo == 0
\* shelves of generateMockShelves whose counts are drawn freely
GenFree == 1
\* oldest generated alert, in minutes
MaxAge == 1
\* longest alert list that is sorted
MaxSortLen == 2
\* most requestRescan calls awaiting their timeout at a time
MaxPending == 1

\* the ages, in minutes, of the alerts that are sorted: fresh, past 1000
\* minutes and past 99000 minutes
SortAges == {0, 1001, 99001}

Min(a, b) == IF a < b THEN a ELSE b
Max(a, b) == IF a > b THEN a ELSE b

\* the outcomes of Math.floor(Math.random() * n) within the draw bound
RandInt(n) == 0..Min(n - 1, MaxDraw)

\* Array.prototype.filter
Filter(s, P(_)) == SelectSeq(s, P)

\* Array.prototype.find on shelves by id: the first match, or NoShelf (undefined)
NoShelf == [id |-> "undefined"]
FindShelf(shs, id) ==
    IF \E i \in 1..Len(shs) : shs[i].id = id
    THEN shs[CHOOSE i \in 1..Len(shs) :
                /\ shs[i].id = id
                /\ \A j \in 1..(i - 1) : shs[j].id # id]
    ELSE NoShelf

----------------------------------------------------------------------------
(* mockData: the domain functions *)

\* determineShelfStatus(products)
determineShelfStatus(products) ==
    LET emptyProducts == Filter(products, LAMBDA p : p.count = 0)
        lowProducts == Filter(products, LAMBDA p : p.count > 0 /\ p.count < p.threshold)
    IN  IF Len(emptyProducts) > 0 THEN "empty"
        ELSE IF Len(lowProducts) > 0 THEN "low"
        ELSE "ok"

\* the product catalog of the model: two names of PRODUCT_NAMES that the
\* threshold heuristic of generateRandomProduct puts in the 'small' bucket
Catalog == <<"Kit Kat Bar", "Cough Drops">>

\* generateRandomProduct: the threshold heuristic on the product name
\* ('Bar' and 'Drops' are small; nothing else of the model's catalog is drawn)
ProductThreshold(productName) ==
    IF productName \in {"Kit Kat Bar", "Cough Drops"} THEN SmallThreshold
    ELSE 2 * SmallThreshold

\* generateRealisticCount(threshold): every count it can return, within MaxCount
generateRealisticCount(threshold) ==
    { c \in 0..MaxCount :
        \/ c = 0
        \/ c < threshold
        \/ c >= threshold /\ c < threshold + 20 }

\* generateShelf(id, aisle), given the names and counts it drew and the hours
\* since its last scan
generateShelf(id, aisle, names, counts, hoursAgo) ==
    LET products == [i \in 1..Len(names) |->
                        [product |-> names[i], count |-> counts[i],
                         threshold |-> ProductThreshold(names[i])]]
    IN  [id |-> id, aisle |-> aisle, items |-> products,
         status |-> determineShelfStatus(products),
         lastScanned |-> now - hoursAgo * 60]

\* ensureDemoDistribution, first loop: force at least 2 empty shelves
ForceEmpty(shelves) ==
    LET emptyCount == Len(Filter(shelves, LAMBDA s : s.status = "empty"))
    IN  IF emptyCount < 2
        THEN [i \in 1..Len(shelves) |->
                IF /\ i - 1 < 2 - emptyCount
                   /\ shelves[i].status # "empty"
                   /\ Len(shelves[i].items) > 0
                THEN LET items == [shelves[i].items EXCEPT ![1].count = 0]
                     IN  [shelves[i] EXCEPT !.items = items,
                                            !.status = determineShelfStatus(items)]
                ELSE shelves[i]]
        ELSE shelves

\* ensureDemoDistribution, second loop: iterations i..n-1, picks[i+1] being the
\* shelf index Math.floor(Math.random() * shelves.length) of iteration i
RECURSIVE ForceLow(_, _, _, _)
ForceLow(shelves, picks, i, n) ==
    IF ~(i < n /\ i < Len(shelves)) THEN shelves
    ELSE LET k == picks[i + 1]
             shelf == shelves[k]
             items == [shelf.items EXCEPT
                          ![1].count = (shelf.items[1].threshold * 5) \div 10]
             forced == IF shelf.status = "ok" /\ Len(shelf.items) > 0
                       THEN [shelves EXCEPT ![k] =
                                [shelf EXCEPT !.items = items,
                                              !.status = determineShelfStatus(items)]]
                       ELSE shelves
         IN  ForceLow(forced, picks, i + 1, n)

\* ensureDemoDistribution(shelves): the shelves as mutated in place
ensureDemoDistribution(shelves, picks) ==
    LET s1 == ForceEmpty(shelves)
        lowCount == Len(Filter(s1, LAMBDA s : s.status = "low"))
    IN  IF lowCount < 3 THEN ForceLow(s1, picks, 0, 3 - lowCount) ELSE s1


\* product.replace(/\s+/g, '-').toLowerCase() on the names of the model
Slug(productName) ==
    CASE productName = "Kit Kat Bar" -> "kit-kat-bar"
      [] productName = "Cough Drops" -> "cough-drops"
      [] productName = "Oreo Cookies" -> "oreo-cookies"
      [] productName = "Dove Soap 100g" -> "dove-soap-100g"
      [] productName = "Colgate Toothpaste" -> "colgate-toothpaste"
      [] productName = "Head & Shoulders Shampoo" -> "head-&-shoulders-shampoo"
      [] OTHER -> "other"

\* Array.prototype.sort with the comparator (a, b) => key(a) - key(b): stable,
\* ascending in key
SortByKey(s, key(_)) ==
    LET Insert(t, x) ==
            LET p == Cardinality({i \in 1..Len(t) : key(t[i]) <= key(x)})
            IN  SubSeq(t, 1, p) \o <<x>> \o SubSeq(t, p + 1, Len(t))
        ins[k \in 0..Len(s)] == IF k = 0 THEN <<>> ELSE Insert(ins[k - 1], s[k])
    IN  ins[Len(s)]

\* a variant of AlertOfProduct that takes a count at the threshold for low
AlertOfProductAtThreshold(shelf, product, rnd) ==
    IF product.count = 0
    THEN <<[id |-> <<"alert", shelf.id, Slug(product.product)>>,
            shelf |-> shelf.id, product |-> product.product, type |-> "empty",
            timestamp |-> now - rnd.age, acknowledged |-> rnd.ack]>>
    ELSE IF product.count <= product.threshold
    THEN <<[id |-> <<"alert", shelf.id, Slug(product.product)>>,
            shelf |-> shelf.id, product |-> product.product, type |-> "low",
            timestamp |-> now - rnd.age, acknowledged |-> rnd.ack]>>
    ELSE <<>>

\* generateAlertsFromShelves, the body of shelf.items.forEach for one product:
\* rnd.age is the age drawn for the timestamp, rnd.ack the acknowledged draw
AlertOfProduct(shelf, product, rnd) ==
    IF product.count = 0
    THEN <<[id |-> <<"alert", shelf.id, Slug(product.product)>>,
            shelf |-> shelf.id, product |-> product.product, type |-> "empty",
            timestamp |-> now - rnd.age, acknowledged |-> rnd.ack]>>
    ELSE IF product.count < product.threshold
    THEN <<[id |-> <<"alert", shelf.id, Slug(product.product)>>,
            shelf |-> shelf.id, product |-> product.product, type |-> "low",
            timestamp |-> now - rnd.age, acknowledged |-> rnd.ack]>>
    ELSE <<>>

\* generateAlertsFromShelves(shelves); rnd[i][j] are the draws for product j of
\* shelf i
generateAlertsFromShelves(shelves, rnd) ==
    LET ofShelf(i) ==
            LET acc[j \in 0..Len(shelves[i].items)] ==
                    IF j = 0 THEN <<>>
                    ELSE acc[j - 1] \o
                         AlertOfProduct(shelves[i], shelves[i].items[j], rnd[i][j])
            IN  acc[Len(shelves[i].items)]
        all[i \in 0..Len(shelves)] ==
            IF i = 0 THEN <<>> ELSE all[i - 1] \o ofShelf(i)
    IN  SortByKey(all[Len(shelves)], LAMBDA a : 0 - a.timestamp)

\* simulateShelfScan, the body of shelf.items.map for one product: changeType is
\* the bucket of the first Math.random() (1: < 0.1, 2: < 0.15, 3: < 0.18,
\* 4: the rest); the branch the if/else-if chain takes
ScanBranch(product, changeType) ==
    IF changeType <= 1 /\ product.count > 0 THEN "purchase"
    ELSE IF changeType <= 2 /\ product.count = 0 THEN "restock"
    ELSE IF changeType <= 3 /\ product.count < product.threshold THEN "partial"
    ELSE "none"

\* a variant of ScanProduct that subtracts a purchase without Math.max(0, ...)
ScanProductUnclamped(product, changeType, d) ==
    LET branch == ScanBranch(product, changeType)
        newCount ==
            CASE branch = "purchase" -> product.count - (1 + d)
              [] branch = "restock" -> product.threshold + d
              [] branch = "partial" -> Min(product.threshold + 5, product.count + d)
              [] OTHER -> product.count
    IN  [product EXCEPT !.count = newCount]

\* ... and the product it returns, d being the floor of the second Math.random()
ScanProduct(product, changeType, d) ==
    LET branch == ScanBranch(product, changeType)
        newCount ==
            CASE branch = "purchase" -> Max(0, product.count - (1 + d))
              [] branch = "restock" -> product.threshold + d
              [] branch = "partial" -> Min(product.threshold + 5, product.count + d)
              [] OTHER -> product.count
    IN  [product EXCEPT !.count = newCount]

\* simulateShelfScan(shelf); rnd[i] are the draws for product i
simulateShelfScan(shelf, rnd) ==
    [shelf |-> shelf.id,
     items |-> [i \in 1..Len(shelf.items) |->
                    ScanProduct(shelf.items[i], rnd[i].changeType, rnd[i].d)],
     timestamp |-> now]

\* the draws simulateShelfScan can make for one product, within the bounds: the
\* second draw is floor(random * 3), floor(random * 10) or floor(random * 8);
\* of the buckets that take the same branch, the lowest stands for all
ProductDraws(product) ==
    { r \in [changeType : 1..4, d : 0..MaxDraw] :
        LET branch == ScanBranch(product, r.changeType)
        IN  /\ \A c \in 1..4 : ScanBranch(product, c) = branch => r.changeType <= c
            /\ r.d \in (CASE branch = "purchase" -> RandInt(3)
                          [] branch = "restock" -> RandInt(10)
                          [] branch = "partial" -> RandInt(8)
                          [] OTHER -> {0})
            /\ ScanProduct(product, r.changeType, r.d).count
                    <= Max(MaxCount, product.count) }

\* ... and for the products of a shelf
ScanDraws(shelf) ==
    LET draws[n \in 0..Len(shelf.items)] ==
            IF n = 0 THEN {<<>>}
            ELSE {Append(rnd, r) : rnd \in draws[n - 1],
                                   r \in ProductDraws(shelf.items[n])}
    IN  draws[Len(shelf.items)]

\* generateRandomScanUpdate(shelves): k is the shelf index drawn
NoUpdate == [shelf |-> "null"]
generateRandomScanUpdate(shelves, k, rnd) ==
    IF Len(shelves) = 0 THEN NoUpdate ELSE simulateShelfScan(shelves[k], rnd)

\* applyScanUpdate(shelf, update)
applyScanUpdate(shelf, update) ==
    [shelf EXCEPT !.items = update.items,
                  !.lastScanned = update.timestamp,
                  !.status = determineShelfStatus(update.items)]

----------------------------------------------------------------------------
(* AppContext: the reducer *)

\* a variant of restockedShelves that adds one to every item of the shelf
restockedShelvesEveryItem(shelves, payload) ==
    [i \in 1..Len(shelves) |->
        IF shelves[i].id = payload.shelfId
        THEN [shelves[i] EXCEPT !.items =
                [j \in 1..Len(shelves[i].items) |->
                    [shelves[i].items[j] EXCEPT !.count = @ + 1]]]
        ELSE shelves[i]]

\* appReducer, case MARK_RESTOCKED: the shelves of the new state
restockedShelves(shelves, payload) ==
    [i \in 1..Len(shelves) |->
        IF shelves[i].id = payload.shelfId
        THEN [shelves[i] EXCEPT !.items =
                [j \in 1..Len(shelves[i].items) |->
                    IF shelves[i].items[j].product = payload.productName
                    THEN [shelves[i].items[j] EXCEPT !.count = @ + 1]
                    ELSE shelves[i].items[j]]]
        ELSE shelves[i]]

\* a variant of updatedShelves that adds a payload whose id no shelf has
updatedShelvesOrAppended(shelves, payload) ==
    IF \E i \in 1..Len(shelves) : shelves[i].id = payload.id
    THEN [i \in 1..Len(shelves) |->
            IF shelves[i].id = payload.id THEN payload ELSE shelves[i]]
    ELSE Append(shelves, payload)

\* a variant of updatedShelves that puts the payload in the place of every shelf
updatedShelvesEveryShelf(shelves, payload) ==
    [i \in 1..Len(shelves) |-> payload]

\* appReducer, case UPDATE_SHELF: the shelves of the new state
updatedShelves(shelves, payload) ==
    [i \in 1..Len(shelves) |->
        IF shelves[i].id = payload.id THEN payload ELSE shelves[i]]

\* a variant of unknownAction that records an error
unknownActionSetsError(st) == [st EXCEPT !.error = "Unknown action"]

\* appReducer, default case: a copy of the state, with the shelves and the
\* alerts it has
unknownAction(st) == [st EXCEPT !.shelves = st.shelves, !.alerts = st.alerts]

\* the alerts for the shelf and the product are removed unless acknowledged
remainingAlertsOrAcknowledged(alerts, payload) ==
    Filter(alerts, LAMBDA a :
        \/ ~(a.shelf = payload.shelfId /\ a.product = payload.productName)
        \/ a.acknowledged)

\* the alerts of the MARK_RESTOCKED case: alerts.filter(alert =>
\* !(alert.shelf === shelfId && alert.product === productName))
remainingAlerts(alerts, payload) ==
    Filter(alerts, LAMBDA a :
        ~(a.shelf = payload.shelfId /\ a.product = payload.productName))

\* the alert with the id has its flag flipped
acknowledgedAlertsToggled(alerts, id) ==
    [i \in 1..Len(alerts) |->
        IF alerts[i].id = id
        THEN [alerts[i] EXCEPT !.acknowledged = ~@]
        ELSE alerts[i]]

\* the alerts of the ACKNOWLEDGE_ALERT case:
\* alerts.map(alert => alert.id === id ? { ...alert, acknowledged: true } : alert)
acknowledgedAlerts(alerts, id) ==
    [i \in 1..Len(alerts) |->
        IF alerts[i].id = id
        THEN [alerts[i] EXCEPT !.acknowledged = TRUE]
        ELSE alerts[i]]

\* appReducer(state, action)
appReducer(st, action) ==
    CASE action.type = "INIT" -> action.payload
      [] action.type = "FETCH_SHELVES_START" ->
            [st EXCEPT !.loading.shelves = TRUE, !.error = "null"]
      [] action.type = "FETCH_SHELVES_SUCCESS" ->
            [st EXCEPT !.shelves = action.payload, !.loading.shelves = FALSE,
                       !.error = "null"]
      [] action.type = "FETCH_SHELVES_ERROR" ->
            [st EXCEPT !.loading.shelves = FALSE, !.error = action.payload]
      [] action.type = "UPDATE_SHELF" ->
            [st EXCEPT !.shelves = updatedShelves(st.shelves, action.payload)]
      [] action.type = "SET_SHELVES" -> [st EXCEPT !.shelves = action.payload]
      [] action.type = "FETCH_ALERTS_START" ->
            [st EXCEPT !.loading.alerts = TRUE, !.error = "null"]
      [] action.type = "FETCH_ALERTS_SUCCESS" ->
            [st EXCEPT !.alerts = action.payload, !.loading.alerts = FALSE,
                       !.error = "null"]
      [] action.type = "FETCH_ALERTS_ERROR" ->
            [st EXCEPT !.loading.alerts = FALSE, !.error = action.payload]
      [] action.type = "ADD_ALERT" ->
            [st EXCEPT !.alerts = <<action.payload>> \o st.alerts]
      [] action.type = "ACKNOWLEDGE_ALERT" ->
            [st EXCEPT !.alerts = acknowledgedAlerts(st.alerts, action.payload)]
      [] action.type = "REMOVE_ALERT" ->
            [st EXCEPT !.alerts = Filter(st.alerts, LAMBDA a : a.id # action.payload)]
      [] action.type = "SET_ALERTS" -> [st EXCEPT !.alerts = action.payload]
      [] action.type = "SELECT_SHELF" -> [st EXCEPT !.selectedShelf = action.payload]
      [] action.type = "CLEAR_SELECTED_SHELF" -> [st EXCEPT !.selectedShelf = "null"]
      [] action.type = "SET_FILTER" ->
            [st EXCEPT !.filterOptions[action.payload.key] = action.payload.value]
      [] action.type = "CLEAR_FILTERS" ->
            [st EXCEPT !.filterOptions = [aisle |-> "null", status |-> "null"]]
      [] action.type = "MARK_RESTOCKED" ->
            [st EXCEPT
                !.shelves = restockedShelves(st.shelves, action.payload),
                !.alerts = remainingAlerts(st.alerts, action.payload)]
      [] action.type = "REQUEST_RESCAN" ->
            [st EXCEPT !.shelves = [i \in 1..Len(st.shelves) |->
                IF st.shelves[i].id = action.payload
                THEN [st.shelves[i] EXCEPT !.lastScanned = now]
                ELSE st.shelves[i]]]
      [] OTHER -> unknownAction(st)


----------------------------------------------------------------------------
(* mockData and AppContext: the initial state *)

\* generateMockShelves before ensureDemoDistribution: one shelf per id, with
\* the draws of generateShelf
RawShelves(ids, aisle, names, counts, hoursAgo) ==
    [k \in 1..Len(ids) |->
        generateShelf(ids[k], aisle, names[k], counts[k], hoursAgo)]

\* createInitialState(), from the mock data
createInitialState(data) ==
    [shelves |-> data.shelves,
     alerts |-> data.alerts,
     loading |-> [shelves |-> FALSE, alerts |-> FALSE],
     error |-> "null",
     selectedShelf |-> "null",
     filterOptions |-> [aisle |-> "null", status |-> "null"]]

\* the shelf grid of the store model (source: 5 aisles x 3 shelves)
StoreShelfIds == <<"A1", "A2">>
\* a shelf id that is not in the store
UnknownShelf == "Z9"

NoData == [shelves |-> <<>>, alerts |-> <<>>]

\* the product names generateShelf drew for the shelves of the store model
StoreProducts == <<Catalog, <<"Kit Kat Bar">>>>

\* the counts generateShelf can draw for products of the given names
CountDraws(names) ==
    { c \in [1..Len(names) -> 0..MaxCount] :
        \A j \in 1..Len(names) :
            c[j] \in generateRealisticCount(ProductThreshold(names[j])) }

\* ... and for the products of every shelf
ShelfCountDraws(products) ==
    LET draws[n \in 0..Len(products)] ==
            IF n = 0 THEN {<<>>}
            ELSE {Append(counts, c) : counts \in draws[n - 1],
                                      c \in CountDraws(products[n])}
    IN  draws[Len(products)]

\* the store right after AppProvider dispatched INIT with createInitialState(),
\* for shelves of the given ids and product names: the alerts are drawn
\* unacknowledged and of age 0
InitStoreOf(ids, products) ==
    /\ now = 0
    /\ last = [op |-> "INIT", shelf |-> "null", product |-> "null"]
    /\ \E counts \in ShelfCountDraws(products),
          picks \in [1..3 -> 1..Len(ids)], hoursAgo \in 0..MaxHoursAgo :
          \E shelves \in {ensureDemoDistribution(
                            RawShelves(ids, "Aisle A", products, counts, hoursAgo),
                            picks)} :
          LET rnd == [i \in 1..Len(shelves) |->
                        [j \in 1..Len(shelves[i].items) |-> [age |-> 0, ack |-> FALSE]]]
              alerts == generateAlertsFromShelves(shelves, rnd)
          IN  state = appReducer("null",
                        [type |-> "INIT",
                         payload |-> createInitialState(
                                        [shelves |-> shelves, alerts |-> alerts])])

InitStore == InitStoreOf(StoreShelfIds, StoreProducts)

\* processAlerts called without options, getAlertStats not called
\* (options.severity is an array of severities; <<"all">> stands for 'all' and
\* for undefined)
NoOptions == [type |-> "undefined", status |-> "undefined", dateRange |-> "undefined",
              search |-> "", severity |-> <<"all">>, sortBy |-> "undefined"]
NoStats == [total |-> 0]

\* nothing generated, requested, scheduled or displayed outside the store
GenIdle == phase = "ready" /\ mockData = NoData
RescanIdle == pending = <<>>
NoSimulation == [started |-> FALSE, scenario |-> <<>>, delivered |-> <<>>,
                 cleaned |-> FALSE]
DemoIdle == timeouts = <<>> /\ simulation = NoSimulation
ViewIdle == view = <<>> /\ options = NoOptions /\ stats = NoStats

\* useDemoController before a scenario is run: the initial values of its useState
NoDemo == [isRunning |-> FALSE, currentScenario |-> "null", currentStep |-> 0,
           originalState |-> <<>>, error |-> "null", isRecovering |-> FALSE,
           retryCount |-> 0, lastSuccessfulStep |-> 0 - 1]
\* no scenario run so far
NoAudit == [run |-> 0, applied |-> {}, failed |-> 0 - 1, retries |-> 0,
            resumed |-> 0 - 1, snapshot |-> <<>>, stopped |-> {},
            actor |-> [run |-> 0, i |-> 0, applied |-> FALSE], thrown |-> 0]
CtrlIdle == demo = NoDemo /\ runs = <<>> /\ audit = NoAudit

\* ErrorBoundary as constructed: no error caught, no reset scheduled
NoBoundary == [hasError |-> FALSE, retryCount |-> 0, resetTimeoutId |-> 0,
               timeouts |-> {}, retries |-> 0, clicks |-> 0]
BoundaryIdle == boundary = NoBoundary

----------------------------------------------------------------------------
(* useRealTimeUpdates: the timers *)

\* the refs of the hook and the intervals that are set, as one record
NoTimers == [ws |-> 0, polling |-> 0, live |-> {}]
Timers == [ws |-> wsSimulationRef, polling |-> pollingTimerRef, live |-> intervals]

\* the ids setInterval returns in the model
TimerIds == 1..4

\* setInterval(...): the id it returns, the lowest one not in used (the ids of
\* the intervals set so far that can still be told from the new one)
setInterval(used) ==
    CHOOSE n \in TimerIds \ used : \A m \in TimerIds \ used : n <= m

\* setupWebSocketSimulation(), id being the id its setInterval returns
setupWebSocketSimulation(t, id) ==
    [t EXCEPT !.ws = id,
              !.live = @ \cup {[id |-> id, source |-> "websocket"]}]

\* setupPolling()
setupPolling(t, id) ==
    IF t.polling # 0 THEN t
    ELSE [t EXCEPT !.polling = id,
                   !.live = @ \cup {[id |-> id, source |-> "polling"]}]

\* stopPolling()
stopPolling(t) ==
    IF t.polling # 0
    THEN [t EXCEPT !.live = {x \in @ : x.id # t.polling}, !.polling = 0]
    ELSE t

\* the ref is set to null and the interval is left running
stopWebSocketSimulationRefOnly(t) == [t EXCEPT !.ws = 0]

\* stopWebSocketSimulation()
stopWebSocketSimulation(t) ==
    IF t.ws # 0
    THEN [t EXCEPT !.live = {x \in @ : x.id # t.ws}, !.ws = 0]
    ELSE t

\* the useEffect of the hook: its body ...
EffectSetup(t, used) ==
    LET id1 == setInterval(used)
        t1 == setupWebSocketSimulation(t, id1)
    IN  setupPolling(t1, setInterval(used \cup {id1}))

\* ... and the cleanup function it returns
EffectCleanup(t) == stopPolling(stopWebSocketSimulation(t))

\* the hook is mounted exactly while it holds an interval: the effect sets both
\* on mount and the cleanup clears both
Mounted == wsSimulationRef # 0 \/ pollingTimerRef # 0

SetTimers(t) ==
    /\ wsSimulationRef' = t.ws
    /\ pollingTimerRef' = t.polling
    /\ intervals' = t.live

\* a dispatch replaced state.shelves: setupWebSocketSimulation and setupPolling
\* are new callbacks (state.shelves is among their dependencies), so React runs
\* the cleanup of the effect and then the effect again
EffectRerun ==
    IF Mounted
    THEN SetTimers(EffectSetup(EffectCleanup(Timers),
                               {x.id : x \in intervals}))
    ELSE UNCHANGED timerVars

\* the refs and the intervals are those of t
TimersAre(t) ==
    /\ wsSimulationRef = t.ws
    /\ pollingTimerRef = t.polling
    /\ intervals = t.live

\* no hook is mounted
TimerIdle == TimersAre(NoTimers)

\* the page with the hook mounted: the effect has set both intervals
HookMounted ==
    /\ GenIdle
    /\ RescanIdle
    /\ DemoIdle
    /\ CtrlIdle
    /\ BoundaryIdle
    /\ ViewIdle
    /\ TimersAre(EffectSetup(NoTimers, {}))

Init ==
    /\ InitStore
    /\ HookMounted

----------------------------------------------------------------------------
(* useRealTimeUpdates and the staff actions *)

\* handleUpdate(update, source): the state after its dispatch
handleUpdate(st, update) ==
    LET shelfToUpdate == FindShelf(st.shelves, update.shelf)
    IN  IF shelfToUpdate = NoShelf THEN st
        ELSE appReducer(st, [type |-> "UPDATE_SHELF",
                             payload |-> applyScanUpdate(shelfToUpdate, update)])

\* the callback of an interval, once Math.random() passed the probability gate
IntervalTick(source) ==
    /\ \E t \in intervals : t.source = source
    /\ \E k \in 1..Len(state.shelves) :
        \E rnd \in ScanDraws(state.shelves[k]) :
            \E randomUpdate \in {generateRandomScanUpdate(state.shelves, k, rnd)} :
                /\ state' = handleUpdate(state, randomUpdate)
                /\ last' = [op |-> "handleUpdate", shelf |-> randomUpdate.shelf,
                            product |-> "null"]

\* a tick of the push-simulation interval that passes the gate
WebSocketTick ==
    /\ IntervalTick("websocket")
    /\ EffectRerun
    /\ UNCHANGED <<now, genVars, rescanVars, demoVars, ctrlVars, boundaryVars, viewVars>>

\* a tick of the polling interval that passes the gate
PollingTick ==
    /\ IntervalTick("polling")
    /\ EffectRerun
    /\ UNCHANGED <<now, genVars, rescanVars, demoVars, ctrlVars, boundaryVars, viewVars>>

\* the shelf ids and product names a caller passes
ShelfIdArgs == {StoreShelfIds[k] : k \in 1..Len(StoreShelfIds)} \cup {UnknownShelf}
ProductArgs == {Catalog[j] : j \in 1..Len(Catalog)}

\* useStaffActions().markRestocked(shelfId, productName)
MarkRestocked ==
    /\ \E shelfId \in ShelfIdArgs, productName \in ProductArgs :
          \E next \in {appReducer(state, [type |-> "MARK_RESTOCKED",
                        payload |-> [shelfId |-> shelfId, productName |-> productName]])} :
              /\ \A i \in 1..Len(next.shelves) :
                    \A j \in 1..Len(next.shelves[i].items) :
                        next.shelves[i].items[j].count # state.shelves[i].items[j].count
                            => next.shelves[i].items[j].count <= MaxCount
              /\ state' = next
              /\ last' = [op |-> "MARK_RESTOCKED", shelf |-> shelfId,
                          product |-> productName]
    /\ EffectRerun
    /\ UNCHANGED <<now, genVars, rescanVars, demoVars, ctrlVars, boundaryVars, viewVars>>

\* useStaffActions().requestRescan(shelfId)
StaffRequestRescan ==
    /\ \E shelfId \in ShelfIdArgs :
          /\ state' = appReducer(state, [type |-> "REQUEST_RESCAN", payload |-> shelfId])
          /\ last' = [op |-> "REQUEST_RESCAN", shelf |-> "null", product |-> "null"]
    /\ EffectRerun
    /\ UNCHANGED <<now, genVars, rescanVars, demoVars, ctrlVars, boundaryVars, viewVars>>

\* the id of no alert
UnknownAlertId == <<"alert", UnknownShelf, "none">>

\* the ids a page passes to acknowledgeAlert: those of the alerts it shows, and
\* an id no alert has
AlertIdArgs(alerts) == {alerts[i].id : i \in 1..Len(alerts)} \cup {UnknownAlertId}

\* useAlerts().acknowledgeAlert(alertId)
AcknowledgeAlert ==
    /\ \E id \in AlertIdArgs(state.alerts) :
          /\ state' = appReducer(state, [type |-> "ACKNOWLEDGE_ALERT", payload |-> id])
          /\ last' = [op |-> "ACKNOWLEDGE_ALERT", shelf |-> "null", product |-> "null"]
    /\ UNCHANGED <<now, genVars, rescanVars, demoVars, ctrlVars, boundaryVars, viewVars, timerVars>>

\* handleTriggerAlert, from the scan update it generated: the alert it adds, if any
triggeredAlert(scanUpdate) ==
    LET low == {j \in 1..Len(scanUpdate.items) :
                    scanUpdate.items[j].count <= scanUpdate.items[j].threshold}
    IN  IF scanUpdate # NoUpdate /\ Len(scanUpdate.items) > 0 /\ low # {}
        THEN LET lowProduct == scanUpdate.items[CHOOSE j \in low : \A h \in low : j <= h]
             IN  <<[id |-> <<"demo-alert", now>>,
                    type |-> IF lowProduct.count = 0 THEN "empty" ELSE "low",
                    shelf |-> scanUpdate.shelf,
                    product |-> lowProduct.product,
                    timestamp |-> now,
                    acknowledged |-> FALSE]>>
        ELSE <<>>

\* DemoController.handleTriggerAlert: one click on Trigger Alert; the clock has
\* moved on by the next click
TriggerAlert ==
    /\ now < MaxNow
    /\ Len(state.alerts) < MaxAlerts
    /\ \E newAlert \in
            {triggeredAlert(generateRandomScanUpdate(state.shelves, d[1], d[2])) :
                d \in UNION {{<<k, rnd>> : rnd \in ScanDraws(state.shelves[k])} :
                                k \in 1..Len(state.shelves)}} :
          IF newAlert # <<>>
          THEN /\ state' = appReducer(state, [type |-> "ADD_ALERT",
                                              payload |-> newAlert[1]])
               /\ last' = [op |-> "ADD_ALERT", shelf |-> "null", product |-> "null"]
          ELSE /\ state' = state
               /\ last' = [op |-> "noAlert", shelf |-> "null", product |-> "null"]
    /\ now' = now + 1
    /\ UNCHANGED <<genVars, rescanVars, demoVars, ctrlVars, boundaryVars, viewVars, timerVars>>

\* useShelves().selectShelf(shelfId)
SelectShelf ==
    /\ \E shelfId \in ShelfIdArgs :
          /\ state' = appReducer(state, [type |-> "SELECT_SHELF", payload |-> shelfId])
          /\ last' = [op |-> "SELECT_SHELF", shelf |-> "null", product |-> "null"]
    /\ UNCHANGED <<now, genVars, rescanVars, demoVars, ctrlVars, boundaryVars, viewVars, timerVars>>

\* useShelves().setFilter(key, value)
SetFilter ==
    /\ \E f \in {[key |-> "aisle", value |-> "A"], [key |-> "status", value |-> "low"]} :
          /\ state' = appReducer(state, [type |-> "SET_FILTER", payload |-> f])
          /\ last' = [op |-> "SET_FILTER", shelf |-> "null", product |-> "null"]
    /\ UNCHANGED <<now, genVars, rescanVars, demoVars, ctrlVars, boundaryVars, viewVars, timerVars>>

\* the action types of the model that appReducer has no case for
UnknownTypes == {"RESET", ""}

\* useAppContext().dispatch(action) with an action type outside AppAction
DispatchUnknown ==
    /\ \E type \in UnknownTypes, payload \in {"null", "A1"} :
          /\ state' = appReducer(state, [type |-> type, payload |-> payload])
          /\ last' = [op |-> "unknown", shelf |-> "null", product |-> "null"]
    /\ UNCHANGED <<now, genVars, rescanVars, demoVars, ctrlVars, boundaryVars, viewVars, timerVars>>

\* the reconciler's timers and the staff actions
Next ==
    \/ WebSocketTick
    \/ PollingTick
    \/ MarkRestocked
    \/ StaffRequestRescan

Spec == Init /\ [][Next]_vars

\* the staff actions and the demo trigger
NextTrigger ==
    \/ MarkRestocked
    \/ AcknowledgeAlert
    \/ TriggerAlert

SpecTrigger == Init /\ [][NextTrigger]_vars

----------------------------------------------------------------------------
(* useRealTimeUpdates: the manual rescan *)

\* requestRescan(shelfId), up to its await: FETCH_SHELVES_START is dispatched
\* and the continuation keeps the state.shelves of the render that made the
\* callback, in which it will look shelfId up; the page that mounts the hook
\* makes the call
RequestRescan ==
    /\ Mounted
    /\ Len(pending) < MaxPending
    /\ \E shelfId \in ShelfIdArgs :
          /\ state' = appReducer(state, [type |-> "FETCH_SHELVES_START"])
          /\ pending' = Append(pending,
                [shelfId |-> shelfId,
                 shelfToRescan |-> FindShelf(state.shelves, shelfId)])
          /\ last' = [op |-> "requestRescan", shelf |-> shelfId, product |-> "null"]
    /\ UNCHANGED <<now, genVars, demoVars, ctrlVars, boundaryVars, viewVars, timerVars>>

\* a call that resumes starts over: it sets the loading flag and waits again
RescanResumesAndRetries ==
    /\ pending # <<>>
    /\ state' = appReducer(state, [type |-> "FETCH_SHELVES_START"])
    /\ pending' = Append(Tail(pending), Head(pending))
    /\ last' = [op |-> "rescanResumed", shelf |-> Head(pending).shelfId,
                product |-> "null"]
    /\ UNCHANGED <<now, genVars, demoVars, ctrlVars, boundaryVars, viewVars, timerVars>>

\* requestRescan(shelfId), after the 2000 ms timeout: the oldest pending call
\* resumes
RescanResumes ==
    /\ pending # <<>>
    /\ LET call == Head(pending)
       IN  /\ IF call.shelfToRescan = NoShelf
              THEN /\ state' = appReducer(state,
                        [type |-> "FETCH_SHELVES_ERROR",
                         payload |-> "Failed to rescan shelf " \o call.shelfId])
                   /\ UNCHANGED timerVars
              ELSE /\ \E rnd \in ScanDraws(call.shelfToRescan) :
                      \E scanUpdate \in {simulateShelfScan(call.shelfToRescan, rnd)} :
                          state' = appReducer(state,
                              [type |-> "UPDATE_SHELF",
                               payload |-> applyScanUpdate(call.shelfToRescan,
                                                           scanUpdate)])
                   /\ EffectRerun
           /\ last' = [op |-> "rescanResumed", shelf |-> call.shelfId,
                       product |-> "null"]
    /\ pending' = Tail(pending)
    /\ UNCHANGED <<now, genVars, demoVars, ctrlVars, boundaryVars, viewVars>>

\* manual rescans next to the staff's restocks
NextRescan ==
    \/ RequestRescan
    \/ RescanResumes
    \/ MarkRestocked

SpecRescan == Init /\ [][NextRescan]_vars

\* the page that mounts the hook goes away: React runs the cleanup of the effect
Unmount ==
    /\ Mounted
    /\ SetTimers(EffectCleanup(Timers))
    /\ last' = [op |-> "unmount", shelf |-> "null", product |-> "null"]
    /\ UNCHANGED <<state, now, genVars, rescanVars, demoVars, ctrlVars, boundaryVars, viewVars>>

\* the page comes back: React runs the effect
Mount ==
    /\ ~Mounted
    /\ SetTimers(EffectSetup(Timers, {}))
    /\ last' = [op |-> "mount", shelf |-> "null", product |-> "null"]
    /\ UNCHANGED <<state, now, genVars, rescanVars, demoVars, ctrlVars, boundaryVars, viewVars>>

\* the reconciler from mount to teardown: its timers and its manual rescans
NextTeardown ==
    \/ WebSocketTick
    \/ PollingTick
    \/ RequestRescan
    \/ RescanResumes
    \/ Unmount
    \/ Mount

\* a store of one shelf
InitOneShelf ==
    /\ InitStoreOf(<<StoreShelfIds[1]>>, <<StoreProducts[1]>>)
    /\ HookMounted

SpecTeardown == InitOneShelf /\ [][NextTeardown]_vars

\* useShelves().updateShelf(shelf), with a shelf of the store whose status a
\* page has set, or with a shelf whose id the store does not have
UpdateShelf ==
    /\ \E shelf \in {[state.shelves[k] EXCEPT !.status = "ok"] :
                        k \in 1..Len(state.shelves)}
                    \cup {[state.shelves[k] EXCEPT !.id = UnknownShelf] :
                            k \in 1..Len(state.shelves)} :
          /\ state' = appReducer(state, [type |-> "UPDATE_SHELF", payload |-> shelf])
          /\ last' = [op |-> "UPDATE_SHELF", shelf |-> shelf.id, product |-> "null"]
    /\ EffectRerun
    /\ UNCHANGED <<now, genVars, rescanVars, demoVars, ctrlVars, boundaryVars, viewVars>>

\* dispatches of the pages to a store of several shelves: the three shelf
\* actions, an alert action and an action of the user interface
NextShelves ==
    \/ UpdateShelf
    \/ MarkRestocked
    \/ StaffRequestRescan
    \/ AcknowledgeAlert
    \/ SelectShelf

SpecShelves == Init /\ [][NextShelves]_vars

\* dispatches of the pages on a store of one shelf, among them actions the
\* reducer does not know
NextDispatch ==
    \/ DispatchUnknown
    \/ SelectShelf
    \/ SetFilter
    \/ RequestRescan
    \/ RescanResumes

SpecDispatch == InitOneShelf /\ [][NextDispatch]_vars

\* manual rescans alone, whose timeouts fire: nothing clears them, and no tick
\* of an interval is needed
NextRescanOnly ==
    \/ RequestRescan
    \/ RescanResumes

SpecRescanFair == Init /\ [][NextRescanOnly]_vars /\ WF_vars(RescanResumes)

----------------------------------------------------------------------------
(* mockData: the scripted demo *)

\* createDemoScenario(): the events, in the order of their delays
createDemoScenario ==
    << [id |-> "demo-1", delay |-> 5000,
        update |-> [shelf |-> "A1",
                    items |-> << [product |-> "Dove Soap 100g", count |-> 0,
                                  threshold |-> 10],
                                 [product |-> "Colgate Toothpaste", count |-> 8,
                                  threshold |-> 10],
                                 [product |-> "Head & Shoulders Shampoo", count |-> 12,
                                  threshold |-> 15] >>,
                    timestamp |-> now]],
       [id |-> "demo-2", delay |-> 10000,
        update |-> [shelf |-> "B2",
                    items |-> << [product |-> "Red Bull Energy", count |-> 2,
                                  threshold |-> 15],
                                 [product |-> "Nestle Water 6-pack", count |-> 18,
                                  threshold |-> 20],
                                 [product |-> "Kit Kat Bar", count |-> 6,
                                  threshold |-> 10] >>,
                    timestamp |-> now]],
       [id |-> "demo-3", delay |-> 15000,
        update |-> [shelf |-> "A1",
                    items |-> << [product |-> "Dove Soap 100g", count |-> 15,
                                  threshold |-> 10],
                                 [product |-> "Colgate Toothpaste", count |-> 8,
                                  threshold |-> 10],
                                 [product |-> "Head & Shoulders Shampoo", count |-> 12,
                                  threshold |-> 15] >>,
                    timestamp |-> now]],
       [id |-> "demo-4", delay |-> 20000,
        update |-> [shelf |-> "C3",
                    items |-> << [product |-> "Charmin Toilet Paper", count |-> 0,
                                  threshold |-> 15],
                                 [product |-> "Bounty Paper Towels", count |-> 3,
                                  threshold |-> 15],
                                 [product |-> "Tide Detergent", count |-> 8,
                                  threshold |-> 15] >>,
                    timestamp |-> now]] >>

\* the scenarios startDemoSimulation is given: the default, and events of it in
\* another order than that of their delays
DemoScenarios ==
    { createDemoScenario,
      <<createDemoScenario[3], createDemoScenario[1], createDemoScenario[2]>>,
      <<createDemoScenario[2], createDemoScenario[1]>> }

\* startDemoSimulation(onUpdate, scenario), onUpdate being the reconciler's
\* handleUpdate: one timeout per event of the scenario, in the order of forEach
StartDemoSimulationOf(scenario) ==
    /\ timeouts = <<>>
    /\ timeouts' = scenario
    /\ simulation' = [started |-> TRUE, scenario |-> scenario, delivered |-> <<>>,
                      cleaned |-> FALSE]
    /\ last' = [op |-> "startDemoSimulation", shelf |-> "null", product |-> "null"]
    /\ UNCHANGED <<state, now, genVars, rescanVars, ctrlVars, boundaryVars, viewVars, timerVars>>

\* startDemoSimulation(onUpdate): the scenario defaults to createDemoScenario()
StartDemoSimulation == StartDemoSimulationOf(createDemoScenario)

\* startDemoSimulation(onUpdate, scenario) for any scenario
StartDemoScenario == \E scenario \in DemoScenarios : StartDemoSimulationOf(scenario)

\* the timeout set last fires next, whatever its delay
NextTimeoutLast(ts) == Len(ts)

\* the timeout that fires next among those set in one forEach: the one with
\* the shortest delay, the one set first among equals
NextTimeout(ts) ==
    CHOOSE k \in 1..Len(ts) :
        \A j \in 1..Len(ts) :
            \/ ts[k].delay < ts[j].delay
            \/ ts[k].delay = ts[j].delay /\ k <= j

\* the timeout of the pending event that is due next fires: onUpdate(event.update)
DemoEventFires ==
    /\ timeouts # <<>>
    /\ LET k == NextTimeout(timeouts)
           event == timeouts[k]
       IN  /\ state' = handleUpdate(state, event.update)
           /\ IF FindShelf(state.shelves, event.update.shelf) = NoShelf
              THEN UNCHANGED timerVars
              ELSE EffectRerun
           /\ timeouts' = SubSeq(timeouts, 1, k - 1) \o SubSeq(timeouts, k + 1, Len(timeouts))
           /\ simulation' = [simulation EXCEPT !.delivered = Append(@, event.id)]
           /\ last' = [op |-> event.id, shelf |-> event.update.shelf, product |-> "null"]
    /\ UNCHANGED <<now, genVars, rescanVars, ctrlVars, boundaryVars, viewVars>>

\* the cleanup function startDemoSimulation returned: clearTimeout on every
\* timeout, fired or not; it can be called any number of times
StopDemoSimulation ==
    /\ simulation.started
    /\ timeouts' = <<>>
    /\ simulation' = [simulation EXCEPT !.cleaned = TRUE]
    /\ last' = [op |-> "stopDemoSimulation", shelf |-> "null", product |-> "null"]
    /\ UNCHANGED <<state, now, genVars, rescanVars, ctrlVars, boundaryVars, viewVars, timerVars>>

\* the scripted demo next to the staff actions
NextScripted ==
    \/ StartDemoSimulation
    \/ DemoEventFires
    \/ StopDemoSimulation
    \/ MarkRestocked
    \/ AcknowledgeAlert

SpecScripted == Init /\ [][NextScripted]_vars

\* startDemoSimulation alone, with any of the scenarios
NextSimulation ==
    \/ StartDemoScenario
    \/ DemoEventFires
    \/ StopDemoSimulation

SpecSimulation == Init /\ [][NextSimulation]_vars

----------------------------------------------------------------------------
(* DemoController: useDemoController and its scenarios *)

\* most scenario runs that are started
MaxRuns == 2
\* most continueScenario calls and auto-resets that are awaited at a time
MaxLoops == 2
\* most step actions that throw
MaxThrows == 2

\* scenarios: the two inventory scenarios, with the id, title and delay (0
\* for none) of each of their steps; stepAction below gives the actions.  The
\* third scenario, real-time-updates, runs through the same loop and is left
\* out: its steps update shelves from timeouts of their own
scenarios ==
    << [id |-> "empty-shelf-detection",
        steps |-> << [id |-> "setup", title |-> "Initial State", delay |-> 0],
                     [id |-> "empty-products", title |-> "Products Run Out", delay |-> 0],
                     [id |-> "generate-alerts", title |-> "Alert Generation", delay |-> 0],
                     [id |-> "acknowledge-alert", title |-> "Alert Acknowledgment",
                      delay |-> 2000],
                     [id |-> "restock", title |-> "Restocking", delay |-> 0],
                     [id |-> "complete", title |-> "Scenario Complete", delay |-> 0] >>],
       [id |-> "low-stock-monitoring",
        steps |-> << [id |-> "setup", title |-> "Normal Operations", delay |-> 0],
                     [id |-> "gradual-depletion", title |-> "Stock Depletion", delay |-> 0],
                     [id |-> "low-stock-alerts", title |-> "Low Stock Alerts", delay |-> 0],
                     [id |-> "proactive-restock", title |-> "Proactive Restocking",
                      delay |-> 0],
                     [id |-> "complete", title |-> "Prevention Success", delay |-> 0] >>] >>

\* scenarios.find(s => s.id === scenarioId), for an id of scenarios
scenarioOf(scenarioId) ==
    scenarios[CHOOSE k \in 1..Len(scenarios) : scenarios[k].id = scenarioId]

\* generateDemoAlert(shelfId, product, type): the id is
\* `demo-${Date.now()}-${random}`, suffix being the random string, which tells
\* the alerts of one forEach apart
generateDemoAlert(shelfId, product, type, suffix) ==
    [id |-> <<"demo", now, "random", suffix>>,
     shelf |-> shelfId,
     product |-> product,
     type |-> type,
     timestamp |-> now,
     acknowledged |-> FALSE]

\* a.id.startsWith('demo-'): the ids of generateDemoAlert and of
\* handleTriggerAlert (`demo-alert-${Date.now()}`) do
startsWithDemo(id) == id[1] \in {"demo", "demo-alert"}

\* updateShelfStatus(shelfId, updates) in a render that saw the given shelves:
\* the actions it dispatches and the error it sets
updateShelfStatus(shelves, shelfId, updates) ==
    LET shelf == FindShelf(shelves, shelfId)
    IN  IF shelf = NoShelf
        THEN [dispatches |-> <<>>,
              error |-> "Failed to update shelf " \o shelfId \o ": Shelf with ID "
                            \o shelfId \o " not found"]
        ELSE [dispatches |->
                <<[type |-> "UPDATE_SHELF",
                   payload |-> [shelf EXCEPT !.items = updates.items,
                                             !.status = updates.status,
                                             !.lastScanned = now]]>>,
              error |-> "null"]

\* a step action that sets and dispatches nothing
NoEffect == [original |-> <<>>, dispatches |-> <<>>, error |-> "null"]

\* the shelf the steps of a scenario work on: shelves[0] in the first
\* scenario, shelves[1] || shelves[0] in the second; NoShelf for undefined
targetShelfOf(scenarioId, shelves) ==
    IF Len(shelves) = 0 THEN NoShelf
    ELSE IF scenarioId = "low-stock-monitoring" /\ Len(shelves) > 1 THEN shelves[2]
    ELSE shelves[1]

\* step.action() of the step stepId of a scenario, in the render that made the
\* scenarios array: cl.shelves and cl.alerts are the state.shelves and
\* state.alerts of that render, d[j] is the Math.floor(Math.random() * n) drawn
\* for item j.  The result is the snapshot the action stores (setOriginalState),
\* the actions it dispatches in their order and the error it sets
stepAction(scenarioId, stepId, cl, d) ==
    LET targetShelf == targetShelfOf(scenarioId, cl.shelves)
        items == targetShelf.items
        updated(newItems, status) ==
            LET r == updateShelfStatus(cl.shelves, targetShelf.id,
                                       [items |-> newItems, status |-> status])
            IN  [NoEffect EXCEPT !.dispatches = r.dispatches, !.error = r.error]
        alertsOf(js, type) ==
            [k \in 1..Len(js) |->
                [type |-> "ADD_ALERT",
                 payload |-> generateDemoAlert(targetShelf.id, items[js[k]].product,
                                               type, js[k])]]
        indices(P(_)) == SelectSeq([j \in 1..Len(items) |-> j], P)
    IN  CASE stepId = "setup" ->
                [NoEffect EXCEPT !.original =
                    <<[shelves |-> cl.shelves, alerts |-> cl.alerts]>>]
          [] stepId = "complete" -> NoEffect
          [] targetShelf = NoShelf -> NoEffect
          [] stepId = "empty-products" ->
                updated([j \in 1..Len(items) |->
                            IF j - 1 < 2 THEN [items[j] EXCEPT !.count = 0]
                            ELSE items[j]],
                        "empty")
          [] stepId = "generate-alerts" ->
                [NoEffect EXCEPT !.dispatches =
                    alertsOf(indices(LAMBDA j : items[j].count = 0), "empty")]
          [] stepId = "acknowledge-alert" ->
                LET found == {a \in 1..Len(cl.alerts) :
                                /\ ~cl.alerts[a].acknowledged
                                /\ startsWithDemo(cl.alerts[a].id)}
                IN  IF found = {} THEN NoEffect
                    ELSE [NoEffect EXCEPT !.dispatches =
                            <<[type |-> "ACKNOWLEDGE_ALERT",
                               payload |-> cl.alerts[CHOOSE a \in found :
                                              \A b \in found : a <= b].id]>>]
          [] stepId = "restock" ->
                updated([j \in 1..Len(items) |->
                            [items[j] EXCEPT !.count =
                                IF items[j].count = 0 THEN d[j] + 10 ELSE @]],
                        "ok")
          [] stepId = "gradual-depletion" ->
                updated([j \in 1..Len(items) |->
                            [items[j] EXCEPT !.count = (items[j].threshold * 8) \div 10]],
                        "low")
          [] stepId = "low-stock-alerts" ->
                [NoEffect EXCEPT !.dispatches =
                    alertsOf(indices(LAMBDA j : items[j].count < items[j].threshold),
                             "low")]
          [] stepId = "proactive-restock" ->
                updated([j \in 1..Len(items) |->
                            [items[j] EXCEPT !.count = items[j].threshold + d[j] + 5]],
                        "ok")

\* the draws step.action() makes: one per item of the target shelf that the
\* step gives a random count, 0 standing for no draw
StepDraws(scenarioId, stepId, cl) ==
    LET targetShelf == targetShelfOf(scenarioId, cl.shelves)
        n == IF targetShelf = NoShelf THEN 0 ELSE Len(targetShelf.items)
    IN  { d \in [1..n -> 0..MaxDraw] :
            \A j \in 1..n :
                d[j] \in (CASE stepId = "restock" /\ targetShelf.items[j].count = 0
                                -> RandInt(20)
                            [] stepId = "proactive-restock" -> RandInt(10)
                            [] OTHER -> {0}) }

\* the dispatches of a handler, applied to the store in their order
RECURSIVE Dispatch(_, _)
Dispatch(st, actions) ==
    IF actions = <<>> THEN st
    ELSE Dispatch(appReducer(st, Head(actions)), Tail(actions))

\* some dispatch of the handler replaced state.shelves
ReplacesShelves(actions) ==
    \E k \in 1..Len(actions) : actions[k].type \in {"UPDATE_SHELF", "SET_SHELVES"}

\* clearError()
clearError(dm) == [dm EXCEPT !.error = "null", !.isRecovering = FALSE]

\* safeRestore(): the actions it dispatches
safeRestore(dm) ==
    IF dm.originalState # <<>>
    THEN <<[type |-> "SET_SHELVES", payload |-> dm.originalState[1].shelves],
           [type |-> "SET_ALERTS", payload |-> dm.originalState[1].alerts]>>
    ELSE <<>>

\* a continueScenario call r (its scenario, the index i of its step, the
\* state.shelves, state.alerts and retryCount of the render that made it, who
\* called it and in which scenario run) returned: runScenario then schedules
\* its auto-reset, retryFromLastStep runs its finally block
LoopReturns(dm, st, r, success) ==
    [demo |-> IF r.by = "retryFromLastStep" THEN [dm EXCEPT !.isRecovering = FALSE]
              ELSE dm,
     state |-> st,
     runs |-> IF r.by = "runScenario" /\ success
              THEN <<[r EXCEPT !.at = "autoReset"]>> ELSE <<>>,
     dispatches |-> <<>>, applied |-> FALSE, failed |-> FALSE]

\* executeStepSafely(step, r.i) from the call of step.action() on, and what
\* continueScenario does with its result; throws: step.action() throws (the
\* timeout of 10 s cannot win the race against a synchronous action)
ExecuteStep(dm, st, r, throws, d) ==
    LET step == scenarioOf(r.scenario).steps[r.i + 1]
        eff == stepAction(r.scenario, step.id, r, d)
    IN  IF throws
        THEN [LoopReturns(
                [dm EXCEPT !.error =
                    IF r.retryCount < 3
                    THEN step.title \o " failed. You can retry from this step."
                    ELSE "Multiple failures detected. Please reset the demo."],
                st, r, FALSE) EXCEPT !.failed = TRUE]
        ELSE [demo |-> [dm EXCEPT
                          !.error = IF eff.error # "null" THEN eff.error ELSE @,
                          !.originalState =
                              IF eff.original # <<>> THEN eff.original ELSE @,
                          !.lastSuccessfulStep = r.i],
              state |-> Dispatch(st, eff.dispatches),
              runs |-> <<[r EXCEPT !.at = "duration"]>>,
              dispatches |-> eff.dispatches, applied |-> TRUE, failed |-> FALSE]

\* continueScenario(scenario, r.i), up to its next await of a timeout: the
\* loop ends after the last step; else setCurrentStep, and executeStepSafely
\* up to the delay of the step, or through its action if it has none
continueScenario(dm, st, r, throws, d) ==
    LET steps == scenarioOf(r.scenario).steps
    IN  IF r.i >= Len(steps) THEN LoopReturns(dm, st, r, TRUE)
        ELSE LET dm1 == [dm EXCEPT !.currentStep = r.i, !.error = "null"]
             IN  IF steps[r.i + 1].delay > 0
                 THEN [demo |-> dm1, state |-> st,
                       runs |-> <<[r EXCEPT !.at = "delay"]>>,
                       dispatches |-> <<>>, applied |-> FALSE, failed |-> FALSE]
                 ELSE ExecuteStep(dm1, st, r, throws, d)

\* the draws of the step a continueScenario call is about to run
LoopDraws(r) ==
    LET steps == scenarioOf(r.scenario).steps
    IN  IF r.i >= Len(steps) THEN {<<>>}
        ELSE StepDraws(r.scenario, steps[r.i + 1].id, r)

\* the history of the scenario run after a call of run number run acted on
\* step i with the result res
Audited(a, run, i, res) ==
    [a EXCEPT !.applied = IF res.applied /\ run = a.run THEN @ \cup {i} ELSE @,
              !.failed = IF res.failed /\ run = a.run THEN i ELSE @,
              !.thrown = IF res.failed THEN @ + 1 ELSE @,
              !.actor = [run |-> run, i |-> i, applied |-> res.applied]]

\* the store, the hook, the awaited calls and the timers after a handler with
\* the result res; the clock has moved on by the time another handler reads
\* Date.now() for the id of an alert
DemoResult(res, newRuns) ==
    /\ state' = res.state
    /\ demo' = res.demo
    /\ runs' = newRuns
    /\ now' = IF \E k \in 1..Len(res.dispatches) : res.dispatches[k].type = "ADD_ALERT"
              THEN now + 1 ELSE now
    /\ IF ReplacesShelves(res.dispatches) THEN EffectRerun ELSE UNCHANGED timerVars

\* runScenario(scenarioId): a click on a scenario button, which shows while
\* no scenario is running; the first step has no delay and runs at once
RunScenarioWith(throws) ==
    /\ ~demo.isRunning
    /\ audit.run < MaxRuns
    /\ Len(runs) < MaxLoops
    /\ \E k \in 1..Len(scenarios) :
          LET r == [by |-> "runScenario", scenario |-> scenarios[k].id, i |-> 0,
                    at |-> "duration", shelves |-> state.shelves,
                    alerts |-> state.alerts, retryCount |-> demo.retryCount,
                    run |-> audit.run + 1]
              dm0 == [clearError([demo EXCEPT !.isRunning = TRUE,
                                              !.currentScenario = scenarios[k].id,
                                              !.currentStep = 0,
                                              !.retryCount = 0,
                                              !.lastSuccessfulStep = 0 - 1])
                        EXCEPT !.originalState =
                            <<[shelves |-> state.shelves, alerts |-> state.alerts]>>]
          IN  \E d \in LoopDraws(r) :
                \E res \in {continueScenario(dm0, state, r, throws, d)} :
                    /\ res.failed = throws
                    /\ DemoResult(res, runs \o res.runs)
                    /\ audit' = Audited([NoAudit EXCEPT
                                            !.run = r.run,
                                            !.stopped = audit.stopped,
                                            !.thrown = audit.thrown,
                                            !.snapshot = dm0.originalState],
                                        r.run, 0, res)
    /\ last' = [op |-> "runScenario", shelf |-> "null", product |-> "null"]
    /\ UNCHANGED <<genVars, rescanVars, demoVars, viewVars, boundaryVars>>

\* a timeout that a continueScenario call or runScenario awaits fires: the
\* delay or the duration of a step, or the 2000 ms before the auto-reset
DemoTimerWith(throws) ==
    /\ \E k \in 1..Len(runs) :
          LET r == runs[k]
              others(new) == SubSeq(runs, 1, k - 1) \o new \o SubSeq(runs, k + 1, Len(runs))
          IN  IF r.at = "autoReset"
              THEN /\ ~throws
                   /\ demo' = [demo EXCEPT !.isRunning = FALSE,
                                           !.currentScenario = "null",
                                           !.currentStep = 0,
                                           !.lastSuccessfulStep = 0 - 1]
                   /\ runs' = others(<<>>)
                   /\ audit' = [audit EXCEPT !.actor =
                                    [run |-> r.run, i |-> r.i, applied |-> FALSE]]
                   /\ UNCHANGED <<state, now, timerVars>>
              ELSE LET next == IF r.at = "delay" THEN r ELSE [r EXCEPT !.i = @ + 1]
                   IN  \E d \in LoopDraws(next) :
                         \E res \in {IF r.at = "delay"
                                     THEN ExecuteStep(demo, state, next, throws, d)
                                     ELSE continueScenario(demo, state, next, throws, d)} :
                             /\ res.failed = throws
                             /\ DemoResult(res, others(res.runs))
                             /\ audit' = Audited(audit, next.run, next.i, res)
    /\ last' = [op |-> "demoTimer", shelf |-> "null", product |-> "null"]
    /\ UNCHANGED <<genVars, rescanVars, demoVars, viewVars, boundaryVars>>

\* resetDemo(): a click on Stop Demo or on Reset; one of them always shows
ResetDemo ==
    /\ LET dispatches == safeRestore(demo)
       IN  /\ state' = Dispatch(state, dispatches)
           /\ demo' = [clearError([demo EXCEPT !.isRunning = FALSE,
                                               !.currentScenario = "null",
                                               !.currentStep = 0,
                                               !.retryCount = 0,
                                               !.lastSuccessfulStep = 0 - 1])
                        EXCEPT !.originalState = <<>>]
           /\ IF ReplacesShelves(dispatches) THEN EffectRerun ELSE UNCHANGED timerVars
    /\ audit' = [audit EXCEPT !.stopped = IF demo.isRunning THEN @ \cup {audit.run} ELSE @,
                              !.actor = [run |-> 0, i |-> 0, applied |-> FALSE]]
    /\ last' = [op |-> "resetDemo", shelf |-> "null", product |-> "null"]
    /\ UNCHANGED <<now, runs, genVars, rescanVars, demoVars, viewVars, boundaryVars>>

\* retryFromLastStep(): a click on Retry, which shows next to an error while
\* retryCount < 3 and lastSuccessfulStep >= 0, and is disabled while recovering
RetryFromLastStepWith(throws) ==
    /\ demo.error # "null"
    /\ demo.retryCount < 3
    /\ demo.lastSuccessfulStep >= 0
    /\ ~demo.isRecovering
    /\ Len(runs) < MaxLoops
    /\ IF demo.currentScenario = "null" \/ demo.retryCount >= 3
       THEN /\ ~throws
            /\ demo' = [demo EXCEPT !.error =
                            "Maximum retry attempts reached. Please reset the demo."]
            /\ audit' = [audit EXCEPT !.actor = [run |-> 0, i |-> 0, applied |-> FALSE]]
            /\ last' = [op |-> "retryRejected", shelf |-> "null", product |-> "null"]
            /\ UNCHANGED <<state, now, runs, timerVars>>
       ELSE LET startFrom == Max(0, demo.lastSuccessfulStep + 1)
                r == [by |-> "retryFromLastStep", scenario |-> demo.currentScenario,
                      i |-> startFrom, at |-> "duration", shelves |-> state.shelves,
                      alerts |-> state.alerts, retryCount |-> demo.retryCount,
                      run |-> audit.run]
                dm0 == clearError([demo EXCEPT !.isRecovering = TRUE,
                                               !.retryCount = @ + 1])
            IN  /\ \E d \in LoopDraws(r) :
                     \E res \in {continueScenario(dm0, state, r, throws, d)} :
                         /\ res.failed = throws
                         /\ DemoResult(res, runs \o res.runs)
                         /\ audit' = Audited([audit EXCEPT !.retries = @ + 1,
                                                           !.resumed = startFrom],
                                             r.run, startFrom, res)
                /\ last' = [op |-> "retryFromLastStep", shelf |-> "null",
                            product |-> "null"]
    /\ UNCHANGED <<genVars, rescanVars, demoVars, viewVars, boundaryVars>>

\* clearError(): a click on Dismiss, which shows next to an error
ClearError ==
    /\ demo.error # "null"
    /\ demo' = clearError(demo)
    /\ last' = [op |-> "clearError", shelf |-> "null", product |-> "null"]
    /\ UNCHANGED <<state, now, runs, audit, genVars, rescanVars, demoVars, viewVars,
                   timerVars, boundaryVars>>

\* the handlers as they run in the application: no action of the scenarios
\* throws on the shelves and alerts of the store
RunScenario == RunScenarioWith(FALSE)
DemoTimerFires == DemoTimerWith(FALSE)
RetryFromLastStep == RetryFromLastStepWith(FALSE)

\* the action of the step that runs next throws
StepThrows ==
    /\ audit.thrown < MaxThrows
    /\ \/ RunScenarioWith(TRUE)
       \/ DemoTimerWith(TRUE)
       \/ RetryFromLastStepWith(TRUE)

\* the demo controller on a store of one shelf
NextDemo ==
    \/ RunScenario
    \/ DemoTimerFires
    \/ ResetDemo

SpecDemo == InitOneShelf /\ [][NextDemo]_vars

\* the demo controller with steps that fail
NextRetry ==
    \/ RunScenario
    \/ DemoTimerFires
    \/ ResetDemo
    \/ StepThrows
    \/ RetryFromLastStep
    \/ ClearError

\* a store of one shelf with one product
InitOneProduct ==
    /\ InitStoreOf(<<StoreShelfIds[1]>>, <<StoreProducts[2]>>)
    /\ HookMounted

SpecRetry == InitOneProduct /\ [][NextRetry]_vars

----------------------------------------------------------------------------
(* ErrorBoundary around the DemoController *)

\* most clicks on Try Again
MaxRetryClicks == 4

\* const maxRetries = 3
maxRetries == 3

\* resetErrorBoundary(): clearTimeout(this.resetTimeoutId) and the setState
resetErrorBoundary(b) ==
    [b EXCEPT !.timeouts = @ \ {b.resetTimeoutId},
              !.hasError = FALSE,
              !.retryCount = 0]

\* getDerivedStateFromError(error): a child threw while rendering; the
\* children render only while the boundary shows no error
BoundaryCatches ==
    /\ ~boundary.hasError
    /\ boundary' = [boundary EXCEPT !.hasError = TRUE]
    /\ last' = [op |-> "getDerivedStateFromError", shelf |-> "null", product |-> "null"]
    /\ UNCHANGED <<state, now, genVars, rescanVars, demoVars, viewVars, timerVars, ctrlVars>>

\* handleRetry(): a click on Try Again, which shows while canRetry; the
\* callback of setState sets the timeout of 500 ms and keeps its id
HandleRetry ==
    /\ boundary.hasError
    /\ boundary.retryCount < maxRetries
    /\ boundary.clicks < MaxRetryClicks
    /\ LET id == boundary.clicks + 1
       IN  boundary' = [boundary EXCEPT !.retryCount = @ + 1,
                                        !.resetTimeoutId = id,
                                        !.timeouts = @ \cup {id},
                                        !.retries = @ + 1,
                                        !.clicks = id]
    /\ last' = [op |-> "handleRetry", shelf |-> "null", product |-> "null"]
    /\ UNCHANGED <<state, now, genVars, rescanVars, demoVars, viewVars, timerVars, ctrlVars>>

\* a timeout that handleRetry set fires: resetErrorBoundary()
ResetTimeoutFires ==
    /\ \E id \in boundary.timeouts :
          boundary' = resetErrorBoundary([boundary EXCEPT !.timeouts = @ \ {id}])
    /\ last' = [op |-> "resetTimeout", shelf |-> "null", product |-> "null"]
    /\ UNCHANGED <<state, now, genVars, rescanVars, demoVars, viewVars, timerVars, ctrlVars>>

\* a click on Reset, which shows with the error
ResetErrorBoundary ==
    /\ boundary.hasError
    /\ boundary' = [resetErrorBoundary(boundary) EXCEPT !.retries = 0]
    /\ last' = [op |-> "resetErrorBoundary", shelf |-> "null", product |-> "null"]
    /\ UNCHANGED <<state, now, genVars, rescanVars, demoVars, viewVars, timerVars, ctrlVars>>

\* componentDidUpdate(prevProps) after the Dashboard changed a reset key (the
\* modal opens or closes, the filter or the sort order changes) while the
\* error shows
ResetKeysChange ==
    /\ boundary.hasError
    /\ boundary' = [resetErrorBoundary(boundary) EXCEPT !.retries = 0]
    /\ last' = [op |-> "componentDidUpdate", shelf |-> "null", product |-> "null"]
    /\ UNCHANGED <<state, now, genVars, rescanVars, demoVars, viewVars, timerVars, ctrlVars>>

\* the error boundary of the Dashboard
NextBoundary ==
    \/ BoundaryCatches
    \/ HandleRetry
    \/ ResetTimeoutFires
    \/ ResetErrorBoundary
    \/ ResetKeysChange

SpecBoundary == Init /\ [][NextBoundary]_vars

----------------------------------------------------------------------------
(* mockData: generateMockShelves and generateAlertsFromShelves as functions *)

\* the store of a page that has not loaded any data
StoreIdle ==
    /\ state = createInitialState(NoData)
    /\ now = 0
    /\ last = [op |-> "INIT", shelf |-> "null", product |-> "null"]

AISLE_LETTERS == <<"A", "B", "C", "D", "E">>
SHELF_NUMBERS == <<"1", "2", "3", "4", "5", "6">>
\* the shelves generateMockShelves makes per aisle
ShelvesPerAisle == 3

\* generateMockShelves(): counts[k] are the counts generateShelf drew for shelf
\* k, for the first GenFree shelves; the other shelves drew every count at its
\* threshold; picks are the shelf indices ensureDemoDistribution drew
generateMockShelves(counts, picks) ==
    LET n == Len(AISLE_LETTERS) * ShelvesPerAisle
        atThreshold == [j \in 1..Len(Catalog) |-> ProductThreshold(Catalog[j])]
        shelves == [k \in 1..n |->
            LET a == ((k - 1) \div ShelvesPerAisle) + 1
                i == ((k - 1) % ShelvesPerAisle) + 1
            IN  generateShelf(AISLE_LETTERS[a] \o SHELF_NUMBERS[i],
                              "Aisle " \o AISLE_LETTERS[a], Catalog,
                              IF k <= GenFree THEN counts[k] ELSE atThreshold, 0)]
    IN  ensureDemoDistribution(shelves, picks)

\* a call of generateMockShelves()
GenerateMockShelves ==
    /\ phase = "start"
    /\ \E counts \in [1..GenFree -> CountDraws(Catalog)],
          picks \in [1..3 -> 1..(Len(AISLE_LETTERS) * ShelvesPerAisle)] :
          mockData' = [shelves |-> generateMockShelves(counts, picks), alerts |-> <<>>]
    /\ phase' = "generated"
    /\ UNCHANGED <<storeVars, rescanVars, demoVars, ctrlVars, boundaryVars, viewVars, timerVars>>

InitGen ==
    /\ StoreIdle
    /\ phase = "start"
    /\ mockData = NoData
    /\ RescanIdle
    /\ DemoIdle
    /\ CtrlIdle
    /\ BoundaryIdle
    /\ ViewIdle
    /\ TimerIdle

SpecGen == InitGen /\ [][GenerateMockShelves]_vars

\* the draws generateAlertsFromShelves makes for the products of the shelves:
\* the age of the alert in minutes and its acknowledged flag
AlertDraws(shelves) ==
    [1..Len(shelves) -> [1..Len(Catalog) -> [age : 0..MaxAge, ack : BOOLEAN]]]

\* a call of generateAlertsFromShelves(shelves)
GenerateAlerts ==
    /\ phase = "shelves"
    /\ \E rnd \in AlertDraws(mockData.shelves) :
          mockData' = [mockData EXCEPT
                          !.alerts = generateAlertsFromShelves(mockData.shelves, rnd)]
    /\ phase' = "alerts"
    /\ UNCHANGED <<storeVars, rescanVars, demoVars, ctrlVars, boundaryVars, viewVars, timerVars>>

\* the argument of generateAlertsFromShelves: shelves as generateShelf makes
\* them, before or after ensureDemoDistribution
InitAlerts ==
    /\ StoreIdle
    /\ phase = "shelves"
    /\ \E c1 \in CountDraws(StoreProducts[1]), c2 \in CountDraws(StoreProducts[2]),
          picks \in [1..3 -> 1..Len(StoreShelfIds)], forced \in BOOLEAN :
          \E shelves \in {RawShelves(StoreShelfIds, "Aisle A", StoreProducts,
                                     <<c1, c2>>, 0)} :
              mockData = [shelves |-> IF forced
                                      THEN ensureDemoDistribution(shelves, picks)
                                      ELSE shelves,
                          alerts |-> <<>>]
    /\ RescanIdle
    /\ DemoIdle
    /\ CtrlIdle
    /\ BoundaryIdle
    /\ ViewIdle
    /\ TimerIdle

SpecAlerts == InitAlerts /\ [][GenerateAlerts]_vars

\* a call of applyScanUpdate(shelf, simulateShelfScan(shelf)) on one of the
\* shelves; neither function assigns to its argument
ScanAndApply ==
    /\ phase = "shelves"
    /\ \E k \in 1..Len(mockData.shelves) :
          \E rnd \in ScanDraws(mockData.shelves[k]) :
              /\ view' = <<applyScanUpdate(mockData.shelves[k],
                              simulateShelfScan(mockData.shelves[k], rnd))>>
              /\ last' = [op |-> "scan", shelf |-> mockData.shelves[k].id,
                          product |-> "null"]
    /\ phase' = "scanned"
    /\ UNCHANGED <<state, now, mockData, rescanVars, demoVars, ctrlVars, boundaryVars, options, stats, timerVars>>

SpecScan == InitAlerts /\ [][ScanAndApply]_vars

----------------------------------------------------------------------------
(* alertUtils: priority and sorting *)

\* getAlertPriority(alert), times 10: the age is counted in minutes
getAlertPriority(alert) ==
    (IF alert.type = "empty" THEN 0 ELSE 1000)
        + (now - alert.timestamp)
        + (IF alert.acknowledged THEN 100000 ELSE 0)

\* sortAlertsByPriority(alerts)
sortAlertsByPriority(alerts) == SortByKey(alerts, getAlertPriority)

\* the alerts a page is given: every type and acknowledged flag, at the ages
\* of SortAges
SortInputs ==
    LET kinds == [type : {"empty", "low"}, acknowledged : BOOLEAN, age : SortAges]
        alertOf(kind, k) ==
            [id |-> <<"alert", k>>, shelf |-> "A1", product |-> "Kit Kat Bar",
             type |-> kind.type, timestamp |-> 0 - kind.age,
             acknowledged |-> kind.acknowledged]
    IN  UNION { { [k \in 1..n |-> alertOf(f[k], k)] : f \in [1..n -> kinds] } :
                n \in 1..MaxSortLen }

\* the page sorts the alerts of the store
SortAlerts ==
    /\ phase = "unsorted"
    /\ view' = sortAlertsByPriority(state.alerts)
    /\ phase' = "sorted"
    /\ UNCHANGED <<storeVars, mockData, rescanVars, demoVars, ctrlVars, boundaryVars, options, stats, timerVars>>

InitSort ==
    /\ now = 0
    /\ last = [op |-> "INIT", shelf |-> "null", product |-> "null"]
    /\ \E alerts \in SortInputs :
          state = createInitialState([shelves |-> <<>>, alerts |-> alerts])
    /\ phase = "unsorted"
    /\ mockData = NoData
    /\ RescanIdle
    /\ DemoIdle
    /\ CtrlIdle
    /\ BoundaryIdle
    /\ ViewIdle
    /\ TimerIdle

SpecSort == InitSort /\ [][SortAlerts]_vars

----------------------------------------------------------------------------
(* alertUtils: severity, filtering, processAlerts and getAlertStats *)

\* a variant of getAlertSeverity that takes an age of exactly 24 hours for high
getAlertSeverityFrom24(alert) ==
    IF alert.type = "empty" THEN "critical"
    ELSE IF alert.type = "low"
    THEN LET ageInMinutes == now - alert.timestamp
         IN  IF ageInMinutes >= 24 * 60 THEN "high"
             ELSE IF ageInMinutes > 4 * 60 THEN "medium"
             ELSE "low"
    ELSE "low"

\* getAlertSeverity(alert): ageInHours > 24 and > 4, on the age in minutes
getAlertSeverity(alert) ==
    IF alert.type = "empty" THEN "critical"
    ELSE IF alert.type = "low"
    THEN LET ageInMinutes == now - alert.timestamp
         IN  IF ageInMinutes > 24 * 60 THEN "high"
             ELSE IF ageInMinutes > 4 * 60 THEN "medium"
             ELSE "low"
    ELSE "low"

\* a variant of isUrgentAlert that does not look at the acknowledged flag
isUrgentAlertIfAcknowledged(alert) ==
    alert.type = "empty" \/ getAlertSeverity(alert) = "high"

\* isUrgentAlert(alert)
isUrgentAlert(alert) ==
    IF alert.acknowledged THEN FALSE
    ELSE alert.type = "empty" \/ getAlertSeverity(alert) = "high"

\* the place of a shelf id or product name of the model in the order of
\* String.prototype.localeCompare
LocaleRank(text) ==
    CASE text = "A1" -> 1
      [] text = "A2" -> 2
      [] text = "Cough Drops" -> 3
      [] text = "Kit Kat Bar" -> 4
      [] OTHER -> 5

\* sortAlertsByTime, sortAlertsByLocation, sortAlertsByProduct
sortAlertsByTime(alerts) == SortByKey(alerts, LAMBDA a : 0 - a.timestamp)
sortAlertsByLocation(alerts) == SortByKey(alerts, LAMBDA a : LocaleRank(a.shelf))
sortAlertsByProduct(alerts) == SortByKey(alerts, LAMBDA a : LocaleRank(a.product))

\* filterAlertsByType(alerts, types), types being an array (processAlerts
\* never passes 'all')
filterAlertsByType(alerts, types) ==
    Filter(alerts, LAMBDA a : \E i \in 1..Len(types) : types[i] = a.type)

\* a variant of filterAlertsByStatus that keeps the acknowledged alerts for
\* every status but 'all'
filterAlertsByStatusAcknowledged(alerts, status) ==
    IF status = "all" THEN alerts
    ELSE Filter(alerts, LAMBDA a : a.acknowledged)

\* filterAlertsByStatus(alerts, status)
filterAlertsByStatus(alerts, status) ==
    IF status = "all" THEN alerts
    ELSE IF status = "acknowledged" THEN Filter(alerts, LAMBDA a : a.acknowledged)
    ELSE Filter(alerts, LAMBDA a : ~a.acknowledged)

\* the minutes of a day, a week and a month (30 days)
DayMinutes == 24 * 60
WeekMinutes == 7 * 24 * 60
MonthMinutes == 30 * 24 * 60

\* filterAlertsByDateRange(alerts, range): 'today' cuts at the last midnight
filterAlertsByDateRange(alerts, range) ==
    IF range = "all" THEN alerts
    ELSE IF range \notin {"today", "week", "month"} THEN alerts
    ELSE LET cutoffDate ==
                CASE range = "today" -> now - (now % DayMinutes)
                  [] range = "week" -> now - WeekMinutes
                  [] range = "month" -> now - MonthMinutes
         IN  Filter(alerts, LAMBDA a : a.timestamp >= cutoffDate)

\* searchTerm.trim() on the search terms of the model
Trim(searchTerm) == IF searchTerm = " " THEN "" ELSE searchTerm

\* text.toLowerCase().includes(search) on the texts and the lower-case search
\* terms of the model
LowerIncludes(text, search) ==
    CASE search = "kit" -> text = "Kit Kat Bar"
      [] search = "a2" -> text = "A2"
      [] search = " " -> text \in {"Kit Kat Bar", "Cough Drops"}
      [] OTHER -> FALSE

\* filterAlertsBySearch(alerts, searchTerm)
filterAlertsBySearch(alerts, searchTerm) ==
    IF Trim(searchTerm) = "" THEN alerts
    ELSE Filter(alerts, LAMBDA a : \/ LowerIncludes(a.product, searchTerm)
                                   \/ LowerIncludes(a.shelf, searchTerm))

\* filterAlertsBySeverity(alerts, severities)
filterAlertsBySeverity(alerts, severities) ==
    IF severities = <<"all">> THEN alerts
    ELSE Filter(alerts, LAMBDA a :
            \E i \in 1..Len(severities) : severities[i] = getAlertSeverity(a))

\* processAlerts(alerts, options)
processAlerts(alerts, o) ==
    LET r0 == alerts
        r1 == IF o.type \notin {"undefined", "all"}
              THEN filterAlertsByType(r0, <<o.type>>) ELSE r0
        r2 == IF o.status \notin {"undefined", "all"}
              THEN filterAlertsByStatus(r1, o.status) ELSE r1
        r3 == IF o.dateRange \notin {"undefined", "all"}
              THEN filterAlertsByDateRange(r2, o.dateRange) ELSE r2
        r4 == IF o.search # "" THEN filterAlertsBySearch(r3, o.search) ELSE r3
        r5 == IF o.severity # <<"all">>
              THEN filterAlertsBySeverity(r4, o.severity) ELSE r4
    IN  CASE o.sortBy = "time" -> sortAlertsByTime(r5)
          [] o.sortBy = "location" -> sortAlertsByLocation(r5)
          [] o.sortBy = "product" -> sortAlertsByProduct(r5)
          [] OTHER -> sortAlertsByPriority(r5)

\* getAlertStats(alerts)
getAlertStats(alerts) ==
    LET total == Len(alerts)
        unacknowledged == Len(Filter(alerts, LAMBDA a : ~a.acknowledged))
    IN  [total |-> total,
         unacknowledged |-> unacknowledged,
         acknowledged |-> total - unacknowledged,
         urgent |-> Len(Filter(alerts, isUrgentAlert)),
         byType |-> [empty |-> Len(Filter(alerts, LAMBDA a : a.type = "empty")),
                     low |-> Len(Filter(alerts, LAMBDA a : a.type = "low"))],
         bySeverity |->
            [critical |-> Len(Filter(alerts, LAMBDA a : getAlertSeverity(a) = "critical")),
             high |-> Len(Filter(alerts, LAMBDA a : getAlertSeverity(a) = "high")),
             medium |-> Len(Filter(alerts, LAMBDA a : getAlertSeverity(a) = "medium")),
             low |-> Len(Filter(alerts, LAMBDA a : getAlertSeverity(a) = "low"))]]

\* longest alert list the functions are given
MaxViewLen == 2

\* the reading of Date.now() when the functions are called: 10:00 of a day
ViewNow == 10 * 60

\* the alerts the lists are made of: both types and flags, on two shelves, at
\* the ages of 0, 4 and 24 hours, a minute more, and more than a week and a month
AlertPool ==
    LET alertOf(k, shelf, product, type, acknowledged, age) ==
            [id |-> <<"alert", k>>, shelf |-> shelf, product |-> product,
             type |-> type, timestamp |-> ViewNow - age,
             acknowledged |-> acknowledged]
    IN  { alertOf(1, "A1", "Kit Kat Bar", "empty", FALSE, 0),
          alertOf(2, "A2", "Cough Drops", "low", FALSE, 4 * 60),
          alertOf(3, "A1", "Cough Drops", "low", FALSE, 4 * 60 + 1),
          alertOf(4, "A2", "Kit Kat Bar", "low", TRUE, 24 * 60),
          alertOf(5, "A1", "Kit Kat Bar", "low", FALSE, 24 * 60 + 1),
          alertOf(6, "A2", "Kit Kat Bar", "empty", TRUE, WeekMinutes + 1),
          alertOf(7, "A1", "Cough Drops", "low", TRUE, MonthMinutes + 1) }

\* the lists of alerts the functions are given
ViewInputs ==
    UNION { [1..n -> AlertPool] : n \in 0..MaxViewLen }

\* the options processAlerts is given
FilterOptions ==
    [type : {"all", "empty", "low"},
     status : {"undefined", "acknowledged", "unacknowledged"},
     dateRange : {"undefined", "today", "week", "month"},
     search : {"", " ", "kit", "a2"},
     severity : {<<"all">>, <<"critical", "high">>, <<"low">>, <<>>},
     sortBy : {"priority", "time", "location", "product"}]

\* a page classifies the alerts of the store
ClassifyAlerts ==
    /\ phase = "listed"
    /\ view' = [i \in 1..Len(state.alerts) |-> getAlertSeverity(state.alerts[i])]
    /\ phase' = "classified"
    /\ UNCHANGED <<storeVars, mockData, rescanVars, demoVars, ctrlVars, boundaryVars, options, stats, timerVars>>

\* a page counts the alerts of the store
CountAlerts ==
    /\ phase = "listed"
    /\ stats' = getAlertStats(state.alerts)
    /\ phase' = "counted"
    /\ UNCHANGED <<storeVars, mockData, rescanVars, demoVars, ctrlVars, boundaryVars, view, options, timerVars>>

\* a page filters and sorts the alerts of the store; processAlerts works on a
\* copy of its argument
ProcessAlerts ==
    /\ phase = "listed"
    /\ \E o \in FilterOptions :
          /\ options' = o
          /\ view' = processAlerts(state.alerts, o)
    /\ phase' = "processed"
    /\ UNCHANGED <<storeVars, mockData, rescanVars, demoVars, ctrlVars, boundaryVars, stats, timerVars>>

InitView ==
    /\ now = ViewNow
    /\ last = [op |-> "INIT", shelf |-> "null", product |-> "null"]
    /\ \E alerts \in ViewInputs :
          state = createInitialState([shelves |-> <<>>, alerts |-> alerts])
    /\ phase = "listed"
    /\ mockData = NoData
    /\ RescanIdle
    /\ DemoIdle
    /\ CtrlIdle
    /\ BoundaryIdle
    /\ ViewIdle
    /\ TimerIdle

SpecSeverity == InitView /\ [][ClassifyAlerts]_vars
SpecStats == InitView /\ [][CountAlerts]_vars
SpecProcess == InitView /\ [][ProcessAlerts]_vars

----------------------------------------------------------------------------
(* The store invariants *)

\* the alerts of the store for product productName of shelf shelfId
AlertsFor(st, shelfId, productName) ==
    {i \in 1..Len(st.alerts) :
        st.alerts[i].shelf = shelfId /\ st.alerts[i].product = productName}

\* C1: in every reachable store state every shelf's status equals the status
\* derived from its items (empty if an item has count 0, else low if an item
\* is below its threshold, else ok)
C1_StatusIsDerived ==
    \A i \in 1..Len(state.shelves) :
        state.shelves[i].status = determineShelfStatus(state.shelves[i].items)

\* C2: in every reachable store state no two unacknowledged alerts have the
\* same shelf, product and type
C2_NoDuplicateAlerts ==
    \A i, j \in 1..Len(state.alerts) :
        (/\ i # j
         /\ state.alerts[i].shelf = state.alerts[j].shelf
         /\ state.alerts[i].product = state.alerts[j].product
         /\ state.alerts[i].type = state.alerts[j].type
         /\ ~state.alerts[i].acknowledged)
        => state.alerts[j].acknowledged

C4_NoLostUpdate ==
    [][(last'.op = "rescanResumed" /\ Head(pending).shelfToRescan # NoShelf) =>
            Head(pending).shelfToRescan
                = FindShelf(state.shelves, Head(pending).shelfId)
      ]_vars

\* C5: right after the reconciler applied a scan update to a shelf, the store
\* holds an empty alert for every product of that shelf with count 0 and a low
\* alert for every product of it with 0 < count < threshold
C5_ScanAddsMissingAlerts ==
    last.op = "handleUpdate" =>
        \A i \in 1..Len(state.shelves) :
            state.shelves[i].id = last.shelf =>
                \A j \in 1..Len(state.shelves[i].items) :
                    LET product == state.shelves[i].items[j]
                        types == {state.alerts[a].type :
                                    a \in AlertsFor(state, last.shelf, product.product)}
                    IN  /\ product.count = 0 => "empty" \in types
                        /\ (product.count > 0 /\ product.count < product.threshold)
                              => "low" \in types

\* C8: a MARK_RESTOCKED(shelfId, productName) step adds exactly 1 to the count
\* of the item named productName on shelf shelfId, changes no other item and
\* no other shelf, and leaves no unacknowledged alert for (shelfId, productName)
C8_MarkRestockedFrame ==
    [][last'.op = "MARK_RESTOCKED" =>
        /\ Len(state'.shelves) = Len(state.shelves)
        /\ \A i \in 1..Len(state.shelves) :
              IF state.shelves[i].id = last'.shelf
              THEN /\ Len(state'.shelves[i].items) = Len(state.shelves[i].items)
                   /\ state'.shelves[i].id = state.shelves[i].id
                   /\ \A j \in 1..Len(state.shelves[i].items) :
                        IF state.shelves[i].items[j].product = last'.product
                        THEN state'.shelves[i].items[j] =
                                [state.shelves[i].items[j] EXCEPT !.count = @ + 1]
                        ELSE state'.shelves[i].items[j] = state.shelves[i].items[j]
              ELSE state'.shelves[i] = state.shelves[i]
        /\ \A a \in AlertsFor(state', last'.shelf, last'.product) :
              state'.alerts[a].acknowledged
      ]_vars

\* C8, its case: Kit Kat Bar of shelf A1 was just restocked from 0 to 1, which
\* removed its generated alert, next to another item and other alerts
C8_Witness ==
    /\ last = [op |-> "MARK_RESTOCKED", shelf |-> "A1", product |-> "Kit Kat Bar"]
    /\ state.shelves[1].items[1].count = 1
    /\ state.shelves[1].items[2].count > 0
    /\ AlertsFor(state, "A1", "Kit Kat Bar") = {}
    /\ Len(state.alerts) > 1

\* C9: a MARK_RESTOCKED step on a product that is low or empty leaves its
\* count at or above its threshold and the shelf's status derived from the new
\* counts, with no alert left for the product; it removes no alert of a product
\* whose new count is below its threshold
C9_RestockReachesThreshold ==
    [][last'.op = "MARK_RESTOCKED" =>
        \A i \in 1..Len(state.shelves) :
            state.shelves[i].id = last'.shelf =>
                \A j \in 1..Len(state.shelves[i].items) :
                    (/\ state.shelves[i].items[j].product = last'.product
                     /\ state.shelves[i].items[j].count
                            < state.shelves[i].items[j].threshold)
                    => /\ state'.shelves[i].items[j].count
                            >= state'.shelves[i].items[j].threshold
                       /\ state'.shelves[i].status
                            = determineShelfStatus(state'.shelves[i].items)
                       /\ AlertsFor(state', last'.shelf, last'.product) = {}
      ]_vars

\* C11: the store's loading.shelves flag is true exactly while a manual rescan
\* is awaiting its simulated latency: true once requested, false again once
\* every requested rescan has resolved, with an update or with an error
C11_LoadingOnlyDuringRescan ==
    state.loading.shelves <=> pending # <<>>

\* C12: a manual rescan of a shelf S of the store completes after its latency
\* with one update of S, a scan of S stamped with the time of the scan, and
\* changes no other shelf; and every such request does complete
C12_RescanUpdatesOneShelf ==
    /\ [][(/\ last'.op = "rescanResumed"
            /\ FindShelf(state.shelves, Head(pending).shelfId) # NoShelf)
          => /\ pending' = Tail(pending)
             /\ Len(state'.shelves) = Len(state.shelves)
             /\ \A i \in 1..Len(state.shelves) :
                   IF state.shelves[i].id = Head(pending).shelfId
                   THEN /\ state'.shelves[i].id = state.shelves[i].id
                        /\ state'.shelves[i].lastScanned = now
                        /\ Len(state'.shelves[i].items) = Len(state.shelves[i].items)
                        /\ \A j \in 1..Len(state.shelves[i].items) :
                              state'.shelves[i].items[j].product
                                  = state.shelves[i].items[j].product
                   ELSE state'.shelves[i] = state.shelves[i]
         ]_vars
    /\ (Len(pending) = MaxPending) ~> (last.op = "rescanResumed")

\* C12, its case: the rescan of shelf A2 completed and left its product at the
\* threshold, next to an empty shelf A1
C12_Witness ==
    /\ last = [op |-> "rescanResumed", shelf |-> "A2", product |-> "null"]
    /\ pending = <<>>
    /\ state.shelves[2].items[1].count = state.shelves[2].items[1].threshold
    /\ state.shelves[2].status = "ok"
    /\ state.shelves[1].status = "empty"

\* a scan update is malformed for the store: it names no shelf of the store,
\* carries a negative count, or names a product its shelf does not carry
Malformed(st, update) ==
    LET shelf == FindShelf(st.shelves, update.shelf)
    IN  IF shelf = NoShelf THEN TRUE
        ELSE \E j \in 1..Len(update.items) :
                \/ update.items[j].count < 0
                \/ \A h \in 1..Len(shelf.items) :
                      shelf.items[h].product # update.items[j].product

\* C13: when the reconciler handles a malformed scan update, the shelves and
\* the alerts of the store stay as they were
C13_MalformedUpdateDropped ==
    [][(/\ timeouts # <<>>
        /\ last'.op = Head(timeouts).id
        /\ Malformed(state, Head(timeouts).update))
       => /\ state'.shelves = state.shelves
          /\ state'.alerts = state.alerts
      ]_vars

\* C14: the teardown of the reconciler leaves no timer set; while it is torn
\* down no step (tick of an interval, completion of a manual rescan) changes
\* the store; and running the stop operations again changes nothing
C14_TeardownStopsDispatch ==
    [][/\ ~Mounted => state' = state
       /\ last'.op = "unmount" =>
            /\ intervals' = {}
            /\ EffectCleanup(Timers)' = Timers'
      ]_vars

\* C15: while the reconciler runs, no step (a tick of either interval, an
\* applied update, MARK_RESTOCKED, REQUEST_RESCAN) cancels or restarts the
\* push-simulation interval or the polling interval: each keeps the interval
\* it was given at mount
C15_TimersIndependent ==
    [][(Mounted /\ Mounted') =>
            /\ wsSimulationRef' = wsSimulationRef
            /\ pollingTimerRef' = pollingTimerRef
            /\ intervals' = intervals
      ]_vars

\* C16: a dispatch of an action whose type the reducer has no case for leaves
\* every field of the state as it was: shelves, alerts, loading, error,
\* selectedShelf and filterOptions
C16_UnknownActionIsNoOp ==
    [][last'.op = "unknown" =>
            /\ state'.shelves = state.shelves
            /\ state'.alerts = state.alerts
            /\ state'.loading = state.loading
            /\ state'.error = state.error
            /\ state'.selectedShelf = state.selectedShelf
            /\ state'.filterOptions = state.filterOptions
            /\ DOMAIN state' = DOMAIN state
      ]_vars

\* C16, its case: an unknown action was dispatched on a store with shelves and
\* alerts, a shelf selected, a filter set and a rescan loading
C16_Witness ==
    /\ last.op = "unknown"
    /\ Len(state.shelves) > 0
    /\ Len(state.alerts) > 0
    /\ state.selectedShelf = "A1"
    /\ state.filterOptions.status = "low"
    /\ state.loading.shelves

C22_ResetStopsScenario ==
    [][/\ (last'.op = "resetDemo" /\ demo.originalState # <<>>) =>
            /\ state'.shelves = audit.snapshot[1].shelves
            /\ state'.alerts = audit.snapshot[1].alerts
       /\ (last'.op = "demoTimer" /\ audit'.actor.run \in audit.stopped) =>
            /\ state'.shelves = state.shelves
            /\ state'.alerts = state.alerts
      ]_vars

\* the delay of the event of a scenario that has the given id
DelayOf(scenario, id) ==
    scenario[CHOOSE k \in 1..Len(scenario) : scenario[k].id = id].delay

\* C23: startDemoSimulation hands the update of each event of its scenario to
\* onUpdate once and no more, in ascending order of the delays, and all of them
\* if the cleanup function is not called; after the cleanup function was called
\* no further event is handed over, and calling it again changes nothing
C23_EachEventOnceInDelayOrder ==
    [][/\ LET d == simulation'.delivered
               sc == simulation'.scenario
           IN  /\ \A i, j \in 1..Len(d) :
                     i < j => d[i] # d[j] /\ DelayOf(sc, d[i]) <= DelayOf(sc, d[j])
               /\ \A i \in 1..Len(d) : \E k \in 1..Len(sc) : sc[k].id = d[i]
               /\ (timeouts' = <<>> /\ simulation'.started /\ ~simulation'.cleaned)
                     => Len(d) = Len(sc)
       /\ (simulation.cleaned /\ simulation'.cleaned)
             => simulation'.delivered = simulation.delivered
       /\ (simulation.cleaned /\ last'.op = "stopDemoSimulation")
             => /\ state' = state
                /\ timeouts' = timeouts
                /\ simulation' = simulation
      ]_vars

\* every event of a scenario given out of delay order has been delivered
C23_Witness ==
    /\ simulation.scenario # createDemoScenario
    /\ Len(simulation.scenario) = 3
    /\ Len(simulation.delivered) = 3
    /\ timeouts = <<>>

\* C24: a manual rescan of a shelf id that is not in the store changes neither
\* the shelves nor the alerts, when it is requested and when it resumes; when
\* it resumes it puts "Failed to rescan shelf <id>" into state.error, sets
\* loading.shelves to false and is over: the call is not made again
C24_FailedRescanSurfacesError ==
    [][/\ (last'.op = "requestRescan"
            /\ FindShelf(state.shelves, last'.shelf) = NoShelf) =>
                /\ state'.shelves = state.shelves
                /\ state'.alerts = state.alerts
                /\ pending' = Append(pending, [shelfId |-> last'.shelf,
                                               shelfToRescan |-> NoShelf])
       /\ (last'.op = "rescanResumed" /\ pending # <<>>
            /\ Head(pending).shelfToRescan = NoShelf) =>
                /\ state'.shelves = state.shelves
                /\ state'.alerts = state.alerts
                /\ state'.error = "Failed to rescan shelf " \o Head(pending).shelfId
                /\ ~state'.loading.shelves
                /\ pending' = Tail(pending)
      ]_vars

\* the rescan of a shelf id that is not in the store has failed
C24_Witness ==
    /\ last.op = "rescanResumed"
    /\ last.shelf = UnknownShelf
    /\ FindShelf(state.shelves, UnknownShelf) = NoShelf
    /\ state.error = "Failed to rescan shelf " \o UnknownShelf
    /\ ~state.loading.shelves
    /\ pending = <<>>

\* C25: ACKNOWLEDGE_ALERT(id) sets acknowledged on the alerts with that id and
\* changes nothing else: the alert list keeps its length and order, every other
\* alert, every shelf and every other field of the store is as before;
\* dispatching it again changes nothing, and an id that no alert has leaves
\* the store as it was
C25_AcknowledgeFrame ==
    [][last'.op = "ACKNOWLEDGE_ALERT" =>
          \E id \in AlertIdArgs(state.alerts) :
              /\ state' = [state EXCEPT !.alerts = state'.alerts]
              /\ Len(state'.alerts) = Len(state.alerts)
              /\ \A i \in 1..Len(state.alerts) :
                    /\ state.alerts[i].id = id =>
                          /\ state'.alerts[i].acknowledged
                          /\ state'.alerts[i] =
                                [state.alerts[i] EXCEPT !.acknowledged = TRUE]
                    /\ state.alerts[i].id # id => state'.alerts[i] = state.alerts[i]
              /\ appReducer(state', [type |-> "ACKNOWLEDGE_ALERT", payload |-> id])
                    = state'
              /\ (\A i \in 1..Len(state.alerts) : state.alerts[i].id # id)
                    => state' = state
      ]_vars

\* an alert was acknowledged next to one that was not, on a store with shelves
C25_Witness ==
    /\ last.op = "ACKNOWLEDGE_ALERT"
    /\ state.shelves # <<>>
    /\ \E i, j \in 1..Len(state.alerts) :
          state.alerts[i].acknowledged /\ ~state.alerts[j].acknowledged

\* the products of shelves[0] that the step Products Run Out sets to 0
RunOutProducts(shelves) ==
    IF shelves = <<>> THEN {}
    ELSE {shelves[1].items[j].product :
            j \in {j \in 1..Len(shelves[1].items) : j - 1 < 2}}

\* a continueScenario call of the scenario run that is going on has just
\* applied step i of Empty Shelf Detection
EmptyShelfStepApplied(i) ==
    /\ last'.op = "demoTimer"
    /\ demo.currentScenario = "empty-shelf-detection"
    /\ audit'.actor = [run |-> audit.run, i |-> i, applied |-> TRUE]

\* C26: in the scenario Empty Shelf Detection, once the step Alert Generation
\* has run the store holds an unacknowledged empty alert for every product the
\* step Products Run Out set to 0, and the step Alert Acknowledgment
\* acknowledges one of these alerts
C26_EmptyShelfAlertsRaised ==
    [][/\ EmptyShelfStepApplied(2) =>
            \A product \in RunOutProducts(state.shelves) :
                \E k \in 1..Len(state'.alerts) :
                    /\ state'.alerts[k].shelf = state.shelves[1].id
                    /\ state'.alerts[k].product = product
                    /\ state'.alerts[k].type = "empty"
                    /\ ~state'.alerts[k].acknowledged
       /\ EmptyShelfStepApplied(3) =>
            \E k \in 1..Len(state.alerts) :
                /\ startsWithDemo(state.alerts[k].id)
                /\ state.alerts[k].product \in RunOutProducts(state.shelves)
                /\ ~state.alerts[k].acknowledged
                /\ Len(state'.alerts) = Len(state.alerts)
                /\ state'.alerts[k].acknowledged
      ]_vars

\* the intervals of one path that are set and not cleared
IntervalsOf(live, source) == {x \in live : x.source = source}

\* C27: while the hook is mounted, whatever re-runs of its effect the changes
\* of state.shelves, unmounts and mounts cause, at most one interval of the
\* push simulation and at most one polling interval are set at any moment, and
\* when an interval is set every earlier interval of its path has been cleared
C27_OneIntervalPerPath ==
    [][\A source \in {"websocket", "polling"} :
          /\ Cardinality(IntervalsOf(intervals, source)) <= 1
          /\ Cardinality(IntervalsOf(intervals', source)) <= 1
          /\ \A x \in IntervalsOf(intervals', source) \ intervals :
                IntervalsOf(intervals, source) \cap intervals' = {}
      ]_vars

\* the effect has run again after an update: both intervals are new ones
C27_Witness ==
    /\ last.op = "handleUpdate"
    /\ wsSimulationRef = 3
    /\ pollingTimerRef = 4
    /\ intervals = {[id |-> 3, source |-> "websocket"], [id |-> 4, source |-> "polling"]}

\* C28: MARK_RESTOCKED(shelfId, productName) removes every alert that names
\* both the shelf and the product, acknowledged or not, and keeps the other
\* alerts, unchanged and in their order; when the store has no such shelf or
\* the shelf no such product the shelves stay as they are and the alerts that
\* name the two are removed all the same
C28_RestockRemovesMatchingAlerts ==
    [][last'.op = "MARK_RESTOCKED" =>
          LET gone == AlertsFor(state, last'.shelf, last'.product)
              kept == (1..Len(state.alerts)) \ gone
              nth(k) == CHOOSE i \in kept : Cardinality({j \in kept : j < i}) = k - 1
              shelf == FindShelf(state.shelves, last'.shelf)
          IN  /\ AlertsFor(state', last'.shelf, last'.product) = {}
              /\ Len(state'.alerts) = Cardinality(kept)
              /\ \A k \in 1..Len(state'.alerts) :
                    state'.alerts[k] = state.alerts[nth(k)]
              /\ (\/ shelf = NoShelf
                  \/ \A j \in 1..Len(shelf.items) :
                        shelf.items[j].product # last'.product)
                    => state'.shelves = state.shelves
      ]_vars

\* after the restock of a product that the shelf does not hold no alert names
\* the two, and an acknowledged alert for another product is kept
C28_Witness ==
    /\ last.op = "MARK_RESTOCKED"
    /\ LET shelf == FindShelf(state.shelves, last.shelf)
       IN  /\ shelf # NoShelf
           /\ \A j \in 1..Len(shelf.items) : shelf.items[j].product # last.product
    /\ AlertsFor(state, last.shelf, last.product) = {}
    /\ \E i \in 1..Len(state.alerts) : state.alerts[i].acknowledged

\* C29: the clicks on Try Again since the boundary was last reset by hand are
\* counted by retryCount up to maxRetries = 3: there are never more than three
\* of them, and after the third retryCount is 3, so Try Again does not show
C29_TryAgainBounded ==
    /\ boundary.retries <= maxRetries
    /\ boundary.retries = maxRetries => boundary.retryCount = maxRetries

\* the ids of the shelves, in the order of the list
ShelfIdsOf(shelves) == [i \in 1..Len(shelves) |-> shelves[i].id]

----------------------------------------------------------------------------
(* The functions *)

\* the number of elements of s that satisfy P
Count(s, P(_)) == Len(SelectSeq(s, P))

\* C6: sortAlertsByPriority returns every unacknowledged empty alert before
\* every unacknowledged low alert, and every unacknowledged alert before every
\* acknowledged one, whatever the alerts' ages
C6_PriorityOrder ==
    phase = "sorted" =>
        \A i, j \in 1..Len(view) :
            (/\ ~view[i].acknowledged
             /\ \/ view[j].acknowledged
                \/ view[i].type = "empty" /\ view[j].type = "low")
            => i < j

\* C7: generateMockShelves returns 15 shelves, at least 2 of them empty and at
\* least 3 of them low, each with the status derived from its items
C7_DemoDistribution ==
    phase = "generated" =>
        /\ Len(mockData.shelves) = 15
        /\ Count(mockData.shelves, LAMBDA s : s.status = "empty") >= 2
        /\ Count(mockData.shelves, LAMBDA s : s.status = "low") >= 3
        /\ \A k \in 1..Len(mockData.shelves) :
              mockData.shelves[k].status
                  = determineShelfStatus(mockData.shelves[k].items)

\* C10: generateAlertsFromShelves emits, for every product of every shelf, one
\* alert naming the shelf and the product if its count is 0 (type empty) or
\* below its threshold (type low), and no alert otherwise; it emits nothing else
C10_OneAlertPerLowProduct ==
    phase = "alerts" =>
        /\ \A i \in 1..Len(mockData.shelves) :
              \A j \in 1..Len(mockData.shelves[i].items) :
                  LET shelf == mockData.shelves[i]
                      product == shelf.items[j]
                      emitted == {a \in 1..Len(mockData.alerts) :
                                    /\ mockData.alerts[a].shelf = shelf.id
                                    /\ mockData.alerts[a].product = product.product}
                  IN  IF product.count = 0
                      THEN /\ Cardinality(emitted) = 1
                           /\ \A a \in emitted : mockData.alerts[a].type = "empty"
                      ELSE IF product.count < product.threshold
                      THEN /\ Cardinality(emitted) = 1
                           /\ \A a \in emitted : mockData.alerts[a].type = "low"
                      ELSE emitted = {}
        /\ \A a \in 1..Len(mockData.alerts) :
              \E i \in 1..Len(mockData.shelves) :
                  /\ mockData.shelves[i].id = mockData.alerts[a].shelf
                  /\ \E j \in 1..Len(mockData.shelves[i].items) :
                        mockData.shelves[i].items[j].product = mockData.alerts[a].product

\* C17: applyScanUpdate(shelf, simulateShelfScan(shelf)) keeps the id of the
\* shelf and the names and thresholds of its products in their order, has no
\* negative count, has the status derived from its items, and leaves the shelf
\* it was given as it was
C17_ScanRoundTrip ==
    [][phase' = "scanned" =>
        LET shelf == FindShelf(mockData.shelves, last'.shelf)
            scanned == view'[1]
        IN  /\ scanned.id = shelf.id
            /\ Len(scanned.items) = Len(shelf.items)
            /\ \A j \in 1..Len(shelf.items) :
                  /\ scanned.items[j].product = shelf.items[j].product
                  /\ scanned.items[j].threshold = shelf.items[j].threshold
                  /\ scanned.items[j].count >= 0
            /\ scanned.status = determineShelfStatus(scanned.items)
            /\ mockData' = mockData
      ]_vars

\* C17, its case: the scan of shelf A1 saw a purchase take the last unit of its
\* first product, next to a second product that stayed low
C17_Witness ==
    /\ phase = "scanned"
    /\ last.shelf = "A1"
    /\ mockData.shelves[1].items[1].count = 1
    /\ view[1].items[1].count = 0
    /\ view[1].items[2].count = 1
    /\ view[1].status = "empty"

\* C18: getAlertSeverity returns critical for an empty alert of any age; for a
\* low alert it returns high if the alert is older than 24 hours, medium if it
\* is older than 4 hours but not than 24, and low otherwise, so that exactly 24
\* hours is medium and exactly 4 hours is low
C18_SeverityByAge ==
    phase = "classified" =>
        /\ Len(view) = Len(state.alerts)
        /\ \A i \in 1..Len(state.alerts) :
              LET alert == state.alerts[i]
                  ageInMinutes == now - alert.timestamp
              IN  /\ alert.type = "empty" => view[i] = "critical"
                  /\ (alert.type = "low" /\ ageInMinutes > 24 * 60)
                        => view[i] = "high"
                  /\ (alert.type = "low" /\ ageInMinutes > 4 * 60
                        /\ ageInMinutes <= 24 * 60) => view[i] = "medium"
                  /\ (alert.type = "low" /\ ageInMinutes <= 4 * 60)
                        => view[i] = "low"
                  /\ (alert.type = "low" /\ ageInMinutes = 24 * 60)
                        => view[i] = "medium"
                  /\ (alert.type = "low" /\ ageInMinutes = 4 * 60)
                        => view[i] = "low"

\* C18, its case: a low alert of exactly 4 hours and one of exactly 24 hours
\* were classified
C18_Witness ==
    /\ phase = "classified"
    /\ Len(state.alerts) = 2
    /\ state.alerts[1].type = "low" /\ now - state.alerts[1].timestamp = 4 * 60
    /\ state.alerts[2].type = "low" /\ now - state.alerts[2].timestamp = 24 * 60
    /\ view = <<"low", "medium">>

\* C19: the result of getAlertStats agrees with the classifiers: the counts by
\* type sum to total, acknowledged and unacknowledged sum to total, the four
\* counts by severity sum to total, and urgent is the number of alerts that
\* are unacknowledged and either of type empty or of severity high
C19_StatsConsistent ==
    phase = "counted" =>
        /\ stats.total = Len(state.alerts)
        /\ stats.byType.empty + stats.byType.low = stats.total
        /\ stats.acknowledged + stats.unacknowledged = stats.total
        /\ stats.bySeverity.critical + stats.bySeverity.high
                + stats.bySeverity.medium + stats.bySeverity.low = stats.total
        /\ stats.urgent =
                Cardinality({i \in 1..Len(state.alerts) :
                    /\ ~state.alerts[i].acknowledged
                    /\ \/ state.alerts[i].type = "empty"
                       \/ getAlertSeverity(state.alerts[i]) = "high"})

\* C19, its case: the stats of an acknowledged empty alert and an
\* unacknowledged low alert older than a day
C19_Witness ==
    /\ phase = "counted"
    /\ stats.total = 2
    /\ stats.urgent = 1
    /\ stats.acknowledged = 1
    /\ stats.byType.empty = 1
    /\ stats.bySeverity.high = 1
    /\ \E i \in 1..2 : state.alerts[i].type = "empty" /\ state.alerts[i].acknowledged

\* an alert passes every filter that the options make active
PassesFilters(alert, o) ==
    /\ o.type \in {"empty", "low"} => alert.type = o.type
    /\ o.status = "acknowledged" => alert.acknowledged
    /\ o.status = "unacknowledged" => ~alert.acknowledged
    /\ o.dateRange = "today" => alert.timestamp >= now - (now % DayMinutes)
    /\ o.dateRange = "week" => alert.timestamp >= now - WeekMinutes
    /\ o.dateRange = "month" => alert.timestamp >= now - MonthMinutes
    /\ o.search = "kit" => alert.product = "Kit Kat Bar"
    /\ o.search = "a2" => alert.shelf = "A2"
    /\ o.severity # <<"all">> =>
            \E i \in 1..Len(o.severity) : o.severity[i] = getAlertSeverity(alert)

\* C20: processAlerts applied to its own result with the same options returns
\* that result; the result holds exactly the alerts of the argument that pass
\* every active filter, each as often as the argument does; and the argument
\* is left as it was
C20_ProcessAlertsIdempotent ==
    [][phase' = "processed" =>
        /\ processAlerts(view', options') = view'
        /\ \A alert \in AlertPool :
              Count(view', LAMBDA a : a = alert) =
                  IF PassesFilters(alert, options')
                  THEN Count(state.alerts, LAMBDA a : a = alert)
                  ELSE 0
        /\ state' = state
      ]_vars

\* C20, its case: of two unacknowledged alerts that pass the status filter the
\* later one of the argument comes first in the result
C20_Witness ==
    /\ phase = "processed"
    /\ options.status = "unacknowledged"
    /\ Len(state.alerts) = 2
    /\ state.alerts[1] # state.alerts[2]
    /\ view = <<state.alerts[2], state.alerts[1]>>

\* C10, its case: alerts were generated for shelves with an empty product, a
\* low product and a product at its threshold
C10_Witness ==
    /\ phase = "alerts"
    /\ mockData.shelves[1].items[1].count = 0
    /\ mockData.shelves[1].items[2].count = 1
    /\ mockData.shelves[2].items[1].count = mockData.shelves[2].items[1].threshold
    /\ Len(mockData.alerts) = 2
    /\ mockData.alerts[1].type = "low"
    /\ mockData.alerts[2].type = "empty"
====
